---------------------------- MODULE Spec2Model ----------------------------
(***************************************************************************)
(* Model of the checkout backend: the Event Receiver (the webhook handler  *)
(* api/stripe-webhook.js, in all of its revisions kept in the repository)  *)
(* acting on the payment provider's Customer / Invoice / Session           *)
(* resources.                                                              *)
(*                                                                         *)
(* A delivery of one webhook request is one action: the whole handler,     *)
(* from signature verification to the response, with every provider call   *)
(* it makes.  Provider calls may fail: `failAt = k' makes the k-th call of *)
(* the delivery throw.                                                     *)
(*                                                                         *)
(* Beside it the Session Initiator (api/checkout-session.js and its        *)
(* revisions) creating Customers and Checkout Sessions, and the            *)
(* Confirmation Poller (unnamed/part_012) reading a Checkout Session.      *)
(* Each request to them is one action as well.                             *)
(***************************************************************************)
EXTENDS Integers, Sequences, FiniteSets, TLC

VARIABLES
    rev,        \* the deployed revision of the Event Receiver
    legacyApi,  \* provider API shape: TRUE iff Invoice has a top-level finalized_at
    session,    \* the provider's Checkout Session cs_1
    customer,   \* the provider's Customer cus_1
    invoices,   \* the provider's Invoices, by id
    emitted,    \* the events the provider has generated so far
    snap,       \* event id -> the invoice as it was when the event was generated
    idem,       \* idempotency keys the provider has already executed
    issued,     \* history: every call made with an idempotency key
    last,       \* the last delivery: request, calls, response, customer before
    uniqueTaxIds, \* provider behaviour: TRUE iff a tax id value is refused the second time
    flights,    \* the deliveries being handled concurrently: request, calls made so far
    handled,    \* history: the events whose concurrent handling has ended, in order
    front,      \* the deployed revision of the Session Initiator
    customers,  \* the provider's Customers the Session Initiator works on, oldest first
    emptyRefused, \* provider behaviour: TRUE iff customers.create refuses a "" parameter
    asked,      \* the last Session Initiator request: request, calls, response
    checkout,   \* the provider's Checkout Session the Confirmation Poller is asked about
    outbox,     \* requests the Confirmation Poller has sent to the downstream endpoint
    polled,     \* the last Confirmation Poller request: request, calls, response
    relay,      \* the deployed relay handler
    relayed     \* the last relay request: request, outbound requests, response

hookVars == <<rev, legacyApi, session, customer, invoices, emitted, snap, idem,
              issued, last, uniqueTaxIds, flights, handled>>
frontVars == <<front, customers, emptyRefused, asked>>
pollVars == <<checkout, outbox, polled>>
relayVars == <<relay, relayed>>
vars == <<hookVars, frontVars, pollVars, relayVars>>

(***************************************************************************)
(* Bounds                                                                  *)
(***************************************************************************)
MaxFailAt == 5      \* the call of a delivery that fails is one of the first MaxFailAt
MaxBuyers == 3      \* the Session Initiator is asked while fewer Customers exist
MaxFlights == 2     \* the deliveries handled concurrently, started one after another

(***************************************************************************)
(* JavaScript values                                                       *)
(***************************************************************************)
NULL == "<null>"            \* null / undefined
EMPTY == ""

Truthy(v) == v # NULL /\ v # EMPTY

\* a || b on strings
OrElse(a, b) == IF Truthy(a) THEN a ELSE b

\* String.prototype.trim over the texts of the model
trim(s) ==
    CASE s = " Acme GmbH " -> "Acme GmbH"
      [] s = "  "          -> EMPTY
      [] OTHER             -> s

\* String.prototype.toLowerCase over the field keys / names of the model
toLowerCase(s) ==
    CASE s = "Company_Name" -> "company_name"
      [] s = "Firmenname"   -> "firmenname"
      [] s = "VAT"          -> "vat"
      [] s = "Company"      -> "company"
      [] s = "Tax ID"       -> "tax id"
      [] s = "Firma"        -> "firma"
      [] s = "USt-/VAT"     -> "ust-/vat"
      [] s = "PO"           -> "po"
      [] OTHER              -> s

\* v?.trim?.() ?? "" and similar: trim of a possibly missing text
trimOrEmpty(v) == IF v = NULL THEN EMPTY ELSE trim(v)

\* A reference held in a JS variable: the id string, or (after `expand') the
\* whole object.  `${ref}' of an object is "[object Object]".
Ref(id) == [id |-> id, expanded |-> FALSE]
Obj(id) == [id |-> id, expanded |-> id # NULL]
NoRef == Ref(NULL)
TemplateStr(ref) == IF ref.expanded THEN "[object Object]" ELSE ref.id

(***************************************************************************)
(* Provider resources                                                      *)
(***************************************************************************)
CustomerId == "cus_1"
SessionId == "cs_1"
InvoiceIds == {"in_1", "in_2"}

MetaKeys == {"company_name", "tax_number", "vat_or_tax_id", "company_tax_number",
             "company_name_from_checkout", "company_tax_number_from_checkout",
             "crm_id"}
InvMetaKeys == {"company_name", "company_tax_number"}

NoMeta == [k \in MetaKeys |-> NULL]
NoInvMeta == [k \in InvMetaKeys |-> NULL]

\* the slot of an invoice the provider has not created yet
NoInvoice ==
    [id |-> NULL, status |-> "none", custom_fields |-> <<>>, customer_name |-> NULL,
     auto_advance |-> FALSE, metadata |-> NoInvMeta, customer |-> NULL]

Field(n, v) == [name |-> n, value |-> v]
FormField(k, v) == [key |-> k, value |-> v]

\* index of the first element satisfying name = n, 0 if none (Array.findIndex + 1)
RECURSIVE findIndexFrom(_, _, _)
findIndexFrom(seq, n, i) ==
    IF i > Len(seq) THEN 0
    ELSE IF seq[i].name = n THEN i
    ELSE findIndexFrom(seq, n, i + 1)
findIndex(seq, n) == findIndexFrom(seq, n, 1)

\* Array.find on a session's custom_fields by key: the text value, NULL if none
RECURSIVE findKeyFrom(_, _, _)
findKeyFrom(seq, k, i) ==
    IF i > Len(seq) THEN NULL
    ELSE IF seq[i].key = k THEN seq[i].value
    ELSE findKeyFrom(seq, k, i + 1)
findKey(seq, k) == findKeyFrom(seq, k, 1)

\* Array.find on custom fields by name: the value, NULL if none
findName(seq, n) == IF findIndex(seq, n) = 0 THEN NULL ELSE seq[findIndex(seq, n)].value

NoDuplicateNames(seq) ==
    \A i, j \in 1..Len(seq) : seq[i].name = seq[j].name => i = j


(***************************************************************************)
(* Events                                                                  *)
(***************************************************************************)
EventIds == {"evt_cs", "evt_ic1", "evt_ic2", "evt_if1", "evt_if2",
             "evt_ps1", "evt_ps2", "evt_cu"}

EventType(e) ==
    CASE e = "evt_cs"               -> "checkout.session.completed"
      [] e \in {"evt_ic1", "evt_ic2"} -> "invoice.created"
      [] e \in {"evt_if1", "evt_if2"} -> "invoice.finalized"
      [] e \in {"evt_ps1", "evt_ps2"} -> "invoice.payment_succeeded"
      [] OTHER                        -> "customer.updated"

EventInvoice(e) ==
    CASE e \in {"evt_ic1", "evt_if1", "evt_ps1"} -> "in_1"
      [] e \in {"evt_ic2", "evt_if2", "evt_ps2"} -> "in_2"
      [] OTHER                                   -> NULL

CreatedEvent(i)   == IF i = "in_1" THEN "evt_ic1" ELSE "evt_ic2"
FinalizedEvent(i) == IF i = "in_1" THEN "evt_if1" ELSE "evt_if2"
PaidEvent(i)      == IF i = "in_1" THEN "evt_ps1" ELSE "evt_ps2"

(***************************************************************************)
(* The provider's API, as the handlers use it.  A handler runs on a        *)
(* context h: the provider state it acts on, the calls it has made, and    *)
(* whether an exception is propagating (failed).                           *)
(***************************************************************************)
MutatingOps == {"customers.update", "invoices.update",
                "invoices.finalizeInvoice", "invoices.pay",
                "customers.createTaxId"}

Context(req) ==
    [cust |-> customer, inv |-> invoices, idem |-> idem, snap |-> snap,
     emitted |-> emitted, calls |-> <<>>, failed |-> FALSE,
     failAt |-> req.failAt, event |-> req.body, auth |-> req.env.STRIPE_SECRET_KEY,
     unique |-> uniqueTaxIds,
     live |-> FALSE, halted |-> FALSE, log |-> <<>>,
     now |-> [cust |-> customer, inv |-> invoices]]

\* How a call ends: stripe-node refuses an id argument that is not a string
\* before sending anything; the k-th call of the delivery may fail in transit;
\* the provider refuses a request that does not carry the account's secret key;
\* a key the provider has already executed replays the stored response; the
\* provider may reject the request; otherwise it is executed.
Outcome(h, ref, key, rejects) ==
    IF ref.expanded THEN "client_error"
    ELSE IF Len(h.calls) + 1 = h.failAt THEN "fault"
    ELSE IF ~h.auth THEN "rejected"
    ELSE IF key # NULL /\ key \in h.idem THEN "replayed"
    ELSE IF rejects THEN "rejected"
    ELSE "ok"

Threw(o) == o \in {"client_error", "fault", "rejected"}

\* The call is recorded with the state its target invoice is in when it is made.
StatusOf(h, ref) ==
    IF ref.id \in InvoiceIds /\ ~ref.expanded THEN h.inv[ref.id].status ELSE NULL

Record(h, op, ref, has, key, o) ==
    [h EXCEPT !.calls = Append(@, [op |-> op, id |-> ref.id, has |-> has,
                                   key |-> key, outcome |-> o,
                                   on |-> StatusOf(h, ref)]),
              !.failed = Threw(o),
              !.idem = IF o = "ok" /\ key # NULL THEN @ \cup {key} ELSE @]

\* try { body } catch { }: run from h0, an exception thrown by the body stops here
\* (a handling suspended at an await is not resumed by it)
Caught(h0, body) == IF h0.failed THEN h0 ELSE [body EXCEPT !.failed = body.halted]

\* ---- await ------------------------------------------------------------
\* A handling that runs concurrently with others (live) is suspended at every
\* provider call. It holds what the calls it has made returned (cust, inv: its
\* view), while the provider's state (now) moves on under the other handlings.
\* One step of it runs the code from the start: the calls of the earlier steps
\* are taken from the log with what they returned, the next call is made on the
\* provider's state as it is now, and the handling is suspended there (halted).
\* A handling that is not live runs all its calls in one step.
AllObjects == {"customer"} \cup InvoiceIds
Touched(ref) == IF ref.id \in InvoiceIds THEN {ref.id} ELSE {}

\* the context the next call is made in
Resumed(h) == IF h.live THEN [h EXCEPT !.cust = h.now.cust, !.inv = h.now.inv] ELSE h

Replayed(h, e) ==
    [h EXCEPT !.calls = Append(@, e.call), !.failed = Threw(e.call.outcome),
              !.cust = e.cust, !.inv = e.inv]

\* what the response shows: the objects it carries as they are after the
\* call, the others as the handling saw them before
Visible(h, x, seen) ==
    [cust |-> IF "customer" \in seen THEN x.cust ELSE h.cust,
     inv |-> [i \in InvoiceIds |-> IF i \in seen THEN x.inv[i] ELSE h.inv[i]]]

Suspended(x, call, seen) ==
    [x EXCEPT !.cust = seen.cust,
              !.inv = seen.inv,
              !.now = [cust |-> x.cust, inv |-> x.inv],
              !.log = Append(@, [call |-> call, cust |-> seen.cust, inv |-> seen.inv]),
              !.halted = TRUE,
              !.failed = TRUE]

Carried(call, returned) == IF Threw(call.outcome) THEN {} ELSE returned

\* the context after the call: x is what making it in Resumed(h) has led to,
\* returned names the objects its response carries
Awaited(h, returned, x) ==
    IF ~h.live THEN x
    ELSE IF Len(h.calls) < Len(h.log) THEN Replayed(h, h.log[Len(h.calls) + 1])
    ELSE Suspended(x, x.calls[Len(x.calls)],
                   Visible(h, x, Carried(x.calls[Len(x.calls)], returned)))

\* ---- reads -------------------------------------------------------------
\* the expanded customer and invoices come with the session
sessionsRetrieve(h, ref) ==
    IF h.failed THEN h
    ELSE LET g == Resumed(h)
         IN Awaited(h, AllObjects,
               Record(g, "checkout.sessions.retrieve", ref, {}, NULL,
                      Outcome(g, ref, NULL, FALSE)))

customersRetrieve(h, ref) ==
    IF h.failed THEN h
    ELSE LET g == Resumed(h)
         IN Awaited(h, {"customer"},
               Record(g, "customers.retrieve", ref, {}, NULL, Outcome(g, ref, NULL, FALSE)))

invoicesRetrieve(h, ref) ==
    IF h.failed THEN h
    ELSE LET g == Resumed(h)
         IN Awaited(h, Touched(ref),
               Record(g, "invoices.retrieve", ref, {}, NULL, Outcome(g, ref, NULL, FALSE)))

\* invoices.list({customer, limit: 1, status: "draft"}): the customer filter is a
\* request parameter, which the provider rejects unless it is an id string.
invoicesListDraft(h, customerRef) ==
    IF h.failed THEN h
    ELSE LET g == Resumed(h)
         IN Awaited(h, InvoiceIds,
               Record(g, "invoices.list", NoRef, {}, NULL,
                      Outcome(g, NoRef, NULL, customerRef.expanded)))

\* the newest draft invoice of the customer, NULL if none (list.data?.[0] || null)
LatestDraft(h) ==
    IF h.inv["in_2"].status = "draft" THEN "in_2"
    ELSE IF h.inv["in_1"].status = "draft" THEN "in_1"
    ELSE NULL

\* ---- customers.update --------------------------------------------------
\* metadata is merged key by key, every other parameter replaces the stored
\* value: invoice_settings.custom_fields is replaced as a whole.
NoCustomerPatch ==
    [has |-> {}, name |-> NULL, metadata |-> NoMeta, custom_fields |-> <<>>]

ApplyCustomerPatch(c, p) ==
    [name |-> IF "name" \in p.has THEN p.name ELSE c.name,
     metadata |-> IF "metadata" \in p.has
                  THEN [k \in MetaKeys |->
                          IF p.metadata[k] # NULL THEN p.metadata[k] ELSE c.metadata[k]]
                  ELSE c.metadata,
     custom_fields |-> IF "custom_fields" \in p.has THEN p.custom_fields
                       ELSE c.custom_fields,
     tax_ids |-> c.tax_ids]

customersUpdate(h, ref, p, key) ==
    IF h.failed THEN h
    ELSE LET g == Resumed(h)
             o == Outcome(g, ref, key, FALSE)
             h1 == Record(g, "customers.update", ref, p.has, key, o)
         IN Awaited(h, {"customer"},
               IF o = "ok" THEN [h1 EXCEPT !.cust = ApplyCustomerPatch(@, p)] ELSE h1)

\* ---- invoices.update ---------------------------------------------------
NoInvoicePatch ==
    [has |-> {}, customer_name |-> NULL, custom_fields |-> <<>>,
     auto_advance |-> FALSE, metadata |-> NoInvMeta]

ApplyInvoicePatch(v, p) ==
    [v EXCEPT !.custom_fields = IF "custom_fields" \in p.has THEN p.custom_fields ELSE @,
              !.auto_advance = IF "auto_advance" \in p.has THEN p.auto_advance ELSE @,
              !.metadata = IF "metadata" \in p.has
                           THEN [k \in InvMetaKeys |->
                                   IF p.metadata[k] # NULL THEN p.metadata[k] ELSE @[k]]
                           ELSE @]

\* The provider refuses customer_name as an invoice parameter, refuses layout
\* fields once the invoice is past draft, and refuses auto_advance on a closed
\* invoice.
InvoiceUpdateRejected(v, p) ==
    \/ v.status = "none"
    \/ "customer_name" \in p.has
    \/ v.status # "draft" /\ "custom_fields" \in p.has
    \/ v.status \in {"paid", "void", "uncollectible"} /\ "auto_advance" \in p.has

invoicesUpdate(h, ref, p, key) ==
    IF h.failed THEN h
    ELSE LET g == Resumed(h)
             rej == IF ref.expanded THEN FALSE
                    ELSE InvoiceUpdateRejected(g.inv[ref.id], p)
             o == Outcome(g, ref, key, rej)
             h1 == Record(g, "invoices.update", ref, p.has, key, o)
         IN Awaited(h, Touched(ref),
               IF o = "ok" THEN [h1 EXCEPT !.inv[ref.id] = ApplyInvoicePatch(@, p)]
               ELSE h1)

\* ---- invoices.finalizeInvoice / invoices.pay ----------------------------
invoicesFinalize(h, ref, key) ==
    IF h.failed THEN h
    ELSE LET g == Resumed(h)
             rej == IF ref.expanded THEN FALSE ELSE g.inv[ref.id].status # "draft"
             o == Outcome(g, ref, key, rej)
             h1 == Record(g, "invoices.finalizeInvoice", ref, {}, key, o)
         IN Awaited(h, Touched(ref),
               IF o = "ok"
               THEN [h1 EXCEPT !.inv[ref.id].status = "open",
                               !.emitted = @ \cup {FinalizedEvent(ref.id)},
                               !.snap[FinalizedEvent(ref.id)] =
                                   [g.inv[ref.id] EXCEPT !.status = "open"]]
               ELSE h1)

invoicesPay(h, ref, key) ==
    IF h.failed THEN h
    ELSE LET g == Resumed(h)
             rej == IF ref.expanded THEN FALSE ELSE g.inv[ref.id].status # "open"
             o == Outcome(g, ref, key, rej)
             h1 == Record(g, "invoices.pay", ref, {}, key, o)
         IN Awaited(h, Touched(ref),
               IF o = "ok"
               THEN [h1 EXCEPT !.inv[ref.id].status = "paid",
                               !.emitted = @ \cup {PaidEvent(ref.id)},
                               !.snap[PaidEvent(ref.id)] =
                                   [g.inv[ref.id] EXCEPT !.status = "paid"]]
               ELSE h1)

\* The Invoice object as the handler reads it: finalized_at is a top-level
\* field only in the legacy API shape (later versions keep it under
\* status_transitions).
finalized_at(v) == IF legacyApi /\ v.status # "draft" THEN "1700000000" ELSE NULL

\* The Session as retrieved with `expand': expanded members come back as objects.
\* subscription.latest_invoice is what the subscription's first invoice is.
SessionView(expand) ==
    [custom_fields |-> session.custom_fields,
     customer |-> IF "customer" \in expand THEN Obj(session.customer)
                  ELSE Ref(session.customer),
     invoice |-> IF "invoice" \in expand THEN Obj(session.invoice)
                 ELSE Ref(session.invoice),
     latest_invoice |-> IF "subscription.latest_invoice" \in expand
                        THEN Obj(session.latest_invoice)
                        ELSE Ref(session.latest_invoice),
     customer_details_name |-> session.customer_details_name]

\* event.data.object of a checkout.session.completed event: nothing expanded
SessionOfEvent == SessionView({})

(***************************************************************************)
(* The webhook request and its verification                                *)
(***************************************************************************)
WebhookSecret == "whsec_live"                                 \* the endpoint's signing secret
HardcodedSecret == "whsec_dmmm5UvDOhlwJgjzidsvMCacg2a6O2sx"   \* the fallback written in the source

NoSig == [payload |-> NULL, secret |-> NULL]
SigKinds == {"valid", "tampered", "forged", "missing"}

\* The stripe-signature header of a request whose body is event e: signed by the
\* provider over this body (valid), signed by the provider over another body
\* (tampered), signed by somebody who only knows the secret published in the
\* source (forged), or absent.
SigHeader(e, kind) ==
    CASE kind = "valid"    -> [payload |-> e, secret |-> WebhookSecret]
      [] kind = "tampered" -> [payload |-> "evt_original", secret |-> WebhookSecret]
      [] kind = "forged"   -> [payload |-> e, secret |-> HardcodedSecret]
      [] OTHER             -> NoSig

\* a verification that takes any signature header for good
constructEvent_anyHeader(raw, sig, secret) == sig # NoSig

\* stripe.webhooks.constructEvent(raw, sig, secret) returns (TRUE) or throws (FALSE)
constructEvent(raw, sig, secret) ==
    /\ secret # NULL
    /\ sig # NoSig
    /\ sig.secret = secret
    /\ sig.payload = raw

\* process.env as the invocation finds it
EnvOk == [STRIPE_SECRET_KEY |-> TRUE, STRIPE_WEBHOOK_SECRET |-> TRUE]
Envs == {EnvOk, [EnvOk EXCEPT !.STRIPE_SECRET_KEY = FALSE],
         [EnvOk EXCEPT !.STRIPE_WEBHOOK_SECRET = FALSE]}

\* process.env.STRIPE_WEBHOOK_SECRET
webhookSecret(req) == IF req.env.STRIPE_WEBHOOK_SECRET THEN WebhookSecret ELSE NULL

Request(e, kind, method, env, failAt) ==
    [body |-> e, kind |-> kind, sig |-> SigHeader(e, kind), method |-> method,
     env |-> env, failAt |-> failAt]

\* The provider's own delivery of event e, any of whose provider calls may fail.
Deliveries(e) == {Request(e, "valid", "POST", EnvOk, k) : k \in 0..MaxFailAt}

\* Every request that may arrive carrying event e: the provider's delivery; a
\* request whose signature does not match; a request with another method; an
\* invocation that lacks a secret.
Requests(e) ==
    Deliveries(e)
    \cup {Request(e, kind, "POST", EnvOk, 0) : kind \in SigKinds}
    \cup {Request(e, "valid", "GET", EnvOk, 0)}
    \cup {Request(e, kind, "POST", env, 0) : kind \in {"valid", "forged"}, env \in Envs}

\* what a handler run amounts to: the response and the context it ended with
Response(status, verified, h) == [status |-> status, verified |-> verified, h |-> h]

\* the answer of a revision whose catch block returns 500 (res.status(500) in
\* catch, res.status(200) at the end of try)
Answered(h) == Response(IF h.failed THEN 500 ELSE 200, TRUE, h)

(***************************************************************************)
(* Event Receiver, src/api/stripe-webhook.js lines 1-216                   *)
(***************************************************************************)
RECURSIVE readCompanyAndVatFrom(_, _, _)
readCompanyAndVatFrom(list, i, acc) ==
    IF i > Len(list) THEN acc
    ELSE LET k == toLowerCase(OrElse(list[i].key, EMPTY))
             v == trimOrEmpty(list[i].value)
             a1 == IF Truthy(v) /\ k \in {"company_name", "company", "firmenname"}
                   THEN [acc EXCEPT !.companyName = v] ELSE acc
             a2 == IF Truthy(v) /\ k \in {"tax_number", "vat", "steuernummer"}
                   THEN [a1 EXCEPT !.taxNumber = v] ELSE a1
         IN readCompanyAndVatFrom(list, i + 1, a2)

NoFields == [companyName |-> NULL, taxNumber |-> NULL]

readCompanyAndVatFromSession(s) == readCompanyAndVatFrom(s.custom_fields, 1, NoFields)

\* upsert that pushes without looking for the name
upsert_append(fields, name, value) ==
    IF ~Truthy(value) THEN fields ELSE Append(fields, Field(name, value))

\* upsert that puts the entry first, whether one of that name was there or not
upsert_first(fields, name, value) ==
    IF ~Truthy(value) THEN fields
    ELSE <<Field(name, value)>> \o SelectSeq(fields, LAMBDA x : x.name # name)

\* the closure `upsert' of upsertCustomerInvoiceDefaults / ensureInvoiceHasCompanyAndVat
upsert(fields, name, value) ==
    IF ~Truthy(value) THEN fields
    ELSE IF findIndex(fields, name) > 0
         THEN [fields EXCEPT ![findIndex(fields, name)] = Field(name, value)]
         ELSE Append(fields, Field(name, value))

upsertCustomerInvoiceDefaults(h, customerObj, f) ==
    LET customerId == Ref(customerObj.id)
        h1 == customersRetrieve(h, customerId)
        cur == h1.cust
        metadata == [k \in MetaKeys |->
                       IF k = "company_name" /\ Truthy(f.companyName) THEN f.companyName
                       ELSE IF k = "tax_number" /\ Truthy(f.taxNumber) THEN f.taxNumber
                       ELSE cur.metadata[k]]
        customFields == upsert(upsert(cur.custom_fields, "Company", OrElse(f.companyName, EMPTY)),
                               "VAT", OrElse(f.taxNumber, EMPTY))
    IN customersUpdate(h1, customerId,
                       [NoCustomerPatch EXCEPT !.has = {"metadata", "custom_fields"},
                                               !.metadata = metadata,
                                               !.custom_fields = customFields],
                       NULL)

ensureInvoiceHasCompanyAndVat(h, invoiceId, f, skipCustomFieldsIfAlreadyOnCustomer) ==
    LET h1 == invoicesRetrieve(h, invoiceId)
    IN IF h1.failed THEN h1
       ELSE LET inv == h1.inv[invoiceId.id]
                setName == Truthy(f.companyName) /\ ~Truthy(inv.customer_name)
                current == upsert(upsert(inv.custom_fields, "Company", f.companyName),
                                  "VAT", f.taxNumber)
                has == (IF setName THEN {"customer_name"} ELSE {})
                       \cup (IF skipCustomFieldsIfAlreadyOnCustomer THEN {}
                             ELSE {"custom_fields"})
            IN IF inv.status \in {"paid", "void", "uncollectible"}
                  \/ Truthy(finalized_at(inv))
               THEN h1
               ELSE IF has = {} THEN h1
               ELSE invoicesUpdate(h1, invoiceId,
                                   [NoInvoicePatch EXCEPT !.has = has,
                                                          !.customer_name = f.companyName,
                                                          !.custom_fields = current],
                                   NULL)

sessionCompleted_sw1(h) ==
    LET h1 == sessionsRetrieve(h, Ref(SessionId))
        s == SessionView({"customer", "invoice", "subscription.latest_invoice"})
        f == readCompanyAndVatFromSession(s)
        h2 == IF h1.failed \/ s.customer.id = NULL THEN h1
              ELSE upsertCustomerInvoiceDefaults(h1, s.customer, f)
        candidateInvoiceId == IF s.invoice.id # NULL THEN Ref(s.invoice.id)
                              ELSE s.latest_invoice
    IN IF h2.failed \/ candidateInvoiceId.id = NULL THEN h2
       ELSE ensureInvoiceHasCompanyAndVat(h2, candidateInvoiceId, f, FALSE)

invoiceCreated_sw1(h, inv) ==
    IF inv.status \in {"draft", "open"} /\ inv.customer # NULL
    THEN LET h1 == customersRetrieve(h, Ref(inv.customer))
             cur == h1.cust
             f == [companyName |-> IF Truthy(cur.metadata["company_name"])
                                   THEN cur.metadata["company_name"] ELSE NULL,
                   taxNumber |-> IF Truthy(cur.metadata["tax_number"])
                                 THEN cur.metadata["tax_number"] ELSE NULL]
             hasInvoiceCustomFields == Len(cur.custom_fields) > 0
         IN IF h1.failed THEN h1
            ELSE ensureInvoiceHasCompanyAndVat(h1, Ref(inv.id), f, hasInvoiceCustomFields)
    ELSE h

\* an answer that reports a failed handling to the provider
respond_retryable(h) == IF h.failed THEN 500 ELSE 200

\* lines 113 and 117: the try block and the catch block answer alike
respond_sw1(h) == IF h.failed THEN 200 ELSE 200

answer_sw1(h) == Response(respond_sw1(h), TRUE, h)

handler_sw1(req, h) ==
    IF req.method # "POST" THEN Response(405, FALSE, h)
    ELSE IF ~req.env.STRIPE_SECRET_KEY \/ ~req.env.STRIPE_WEBHOOK_SECRET
         THEN Response(500, FALSE, h)
    ELSE IF ~constructEvent(req.body, req.sig, webhookSecret(req)) THEN Response(400, FALSE, h)
    ELSE LET type == EventType(req.body)
             h1 == CASE type = "checkout.session.completed" -> sessionCompleted_sw1(h)
                     [] type = "invoice.created" -> invoiceCreated_sw1(h, h.snap[req.body])
                     [] OTHER -> h
         IN answer_sw1(h1)

(***************************************************************************)
(* Helpers the revisions share                                             *)
(***************************************************************************)
\* v || null   and   v || ""
orNull(v) == IF Truthy(v) THEN v ELSE NULL
orEmpty(v) == IF Truthy(v) THEN v ELSE EMPTY

\* f?.text?.value || null of the session's custom field `key'
getCustomField(s, key) == orNull(findKey(s.custom_fields, key))

\* f?.text?.value?.trim() || "" of the session's custom field `key'
getTextField(s, key) == orEmpty(trimOrEmpty(findKey(s.custom_fields, key)))

\* an array built by pushing {name, value} for each value that is truthy
buildInvoiceCustomFields(n1, v1, n2, v2) ==
    (IF Truthy(v1) THEN <<Field(n1, v1)>> ELSE <<>>)
    \o (IF Truthy(v2) THEN <<Field(n2, v2)>> ELSE <<>>)

\* a metadata object built by spreading {key: value} for each value that is truthy
buildMetadata(k1, v1, k2, v2) ==
    [k \in MetaKeys |-> IF k = k1 /\ Truthy(v1) THEN v1
                        ELSE IF k = k2 /\ Truthy(v2) THEN v2
                        ELSE NULL]

\* the first custom field whose lower-cased name is n: its value, NULL if none
findNameLower(seq, n) ==
    findName([i \in 1..Len(seq) |->
                Field(toLowerCase(OrElse(seq[i].name, EMPTY)), seq[i].value)], n)

(***************************************************************************)
(* Event Receiver, src/api/stripe-webhook.js lines 218-382                 *)
(***************************************************************************)
sessionCompleted_sw2(h) ==
    LET s == SessionOfEvent
        companyName == getCustomField(s, "company_name")
        taxNumber == getCustomField(s, "company_tax_number")
    IN IF s.customer.id = NULL THEN h
       ELSE IF ~(Truthy(companyName) \/ Truthy(taxNumber)) THEN h
       ELSE customersUpdate(h, s.customer,
               [NoCustomerPatch EXCEPT
                  !.has = {"metadata"} \cup (IF Truthy(companyName) THEN {"name"} ELSE {}),
                  !.name = companyName,
                  !.metadata = buildMetadata("company_name", companyName,
                                             "vat_or_tax_id", taxNumber)],
               NULL)

invoiceCreated_sw2(h, invoice) ==
    IF invoice.customer = NULL THEN h
    ELSE LET h1 == customersRetrieve(h, Ref(invoice.customer))
             cust == h1.cust
             companyName == orNull(cust.metadata["company_name"])
             taxId == orNull(cust.metadata["vat_or_tax_id"])
             h2 == IF Truthy(companyName) /\ cust.name # companyName
                   THEN Caught(h1, customersUpdate(h1, Ref(invoice.customer),
                                     [NoCustomerPatch EXCEPT !.has = {"name"},
                                                             !.name = companyName],
                                     NULL))
                   ELSE h1
             cf == invoice.custom_fields
             toAdd == buildInvoiceCustomFields(
                         "Company", IF findIndex(cf, "Company") = 0 THEN companyName ELSE NULL,
                         "Tax ID", IF findIndex(cf, "Tax ID") = 0 THEN taxId ELSE NULL)
         IN IF h1.failed THEN h1
            ELSE IF toAdd = <<>> THEN h2
            ELSE Caught(h2, invoicesUpdate(h2, Ref(invoice.id),
                              [NoInvoicePatch EXCEPT !.has = {"custom_fields"},
                                                     !.custom_fields = cf \o toAdd],
                              NULL))

invoiceFinalized_sw2(h, invoice) ==
    IF Len(invoice.custom_fields) > 0 \/ invoice.customer = NULL THEN h
    ELSE LET h1 == customersRetrieve(h, Ref(invoice.customer))
             cust == h1.cust
             cf == buildInvoiceCustomFields("Company", orNull(cust.metadata["company_name"]),
                                            "Tax ID", orNull(cust.metadata["vat_or_tax_id"]))
         IN IF h1.failed \/ cf = <<>> THEN h1
            ELSE Caught(h1, invoicesUpdate(h1, Ref(invoice.id),
                              [NoInvoicePatch EXCEPT !.has = {"custom_fields"},
                                                     !.custom_fields = cf],
                              NULL))

handler_sw2(req, h) ==
    IF req.method # "POST" THEN Response(405, FALSE, h)
    ELSE IF ~req.env.STRIPE_SECRET_KEY \/ ~req.env.STRIPE_WEBHOOK_SECRET
         THEN Response(500, FALSE, h)
    ELSE IF ~constructEvent(req.body, req.sig, webhookSecret(req)) THEN Response(400, FALSE, h)
    ELSE LET type == EventType(req.body)
             h1 == CASE type = "checkout.session.completed" -> sessionCompleted_sw2(h)
                     [] type = "invoice.created" -> invoiceCreated_sw2(h, h.snap[req.body])
                     [] type = "invoice.finalized" -> invoiceFinalized_sw2(h, h.snap[req.body])
                     [] OTHER -> h
         IN Answered(h1)

(***************************************************************************)
(* Event Receiver, src/api/track.js lines 31-132                           *)
(***************************************************************************)
sessionCompleted_track(h) ==
    LET s == SessionOfEvent
        companyName == getTextField(s, "company_name")
        companyTax == getTextField(s, "company_tax_number")
        invoiceCustom == buildInvoiceCustomFields("Company", companyName, "Tax ID", companyTax)
        has == (IF Truthy(s.customer_details_name) THEN {"name"} ELSE {})
               \cup (IF invoiceCustom # <<>> THEN {"custom_fields"} ELSE {})
               \cup (IF Truthy(companyName) \/ Truthy(companyTax) THEN {"metadata"} ELSE {})
    IN IF s.customer.id = NULL \/ has = {} THEN h
       ELSE customersUpdate(h, s.customer,
               [has |-> has, name |-> s.customer_details_name,
                metadata |-> buildMetadata("company_name", companyName,
                                           "vat_or_tax_id", companyTax),
                custom_fields |-> invoiceCustom],
               NULL)

\* a receiver that reconciles on every verified event, whatever its type
handler_track_anyType(req, h) ==
    IF ~constructEvent(req.body, req.sig, webhookSecret(req)) THEN Response(400, FALSE, h)
    ELSE LET h1 == sessionCompleted_track(h)
         IN Answered(h1)

handler_track(req, h) ==
    IF req.method # "POST" THEN Response(405, FALSE, h)
    ELSE IF ~req.env.STRIPE_SECRET_KEY \/ ~req.env.STRIPE_WEBHOOK_SECRET
         THEN Response(500, FALSE, h)
    ELSE IF ~constructEvent(req.body, req.sig, webhookSecret(req)) THEN Response(400, FALSE, h)
    ELSE IF EventType(req.body) # "checkout.session.completed" THEN Response(200, TRUE, h)
    ELSE LET h1 == sessionCompleted_track(h)
         IN Answered(h1)

(***************************************************************************)
(* Event Receiver, src/unnamed/part_009                                    *)
(***************************************************************************)
getCompanyFromCust(cust) ==
    OrElse(orEmpty(trimOrEmpty(findName(cust.custom_fields, "Company"))),
           orEmpty(trimOrEmpty(cust.metadata["company_name"])))

getTaxFromCust(cust) ==
    OrElse(orEmpty(trimOrEmpty(findName(cust.custom_fields, "Tax ID"))),
           orEmpty(trimOrEmpty(cust.metadata["vat_or_tax_id"])))

sessionCompleted_p009(h) ==
    LET s == SessionOfEvent
        company == getTextField(s, "company_name")
        taxno == getTextField(s, "company_tax_number")
        custom_fields == buildInvoiceCustomFields("Company", company, "Tax ID", taxno)
        has == (IF Truthy(company) \/ Truthy(taxno) THEN {"metadata"} ELSE {})
               \cup (IF custom_fields # <<>> THEN {"custom_fields"} ELSE {})
    IN IF s.customer.id = NULL \/ has = {} THEN h
       ELSE customersUpdate(h, s.customer,
               [NoCustomerPatch EXCEPT
                  !.has = has,
                  !.metadata = buildMetadata("company_name", company, "vat_or_tax_id", taxno),
                  !.custom_fields = custom_fields],
               NULL)

\* invoice.created and invoice.finalized share one case
invoiceEvent_p009(h, invoice) ==
    IF invoice.customer = NULL THEN h
    ELSE LET h1 == customersRetrieve(h, Ref(invoice.customer))
             company == getCompanyFromCust(h1.cust)
             taxno == getTaxFromCust(h1.cust)
             cfs == buildInvoiceCustomFields("Company", company, "Tax ID", taxno)
             has == (IF Truthy(company) THEN {"customer_name"} ELSE {})
                    \cup (IF Len(invoice.custom_fields) = 0 /\ cfs # <<>>
                          THEN {"custom_fields"} ELSE {})
         IN IF h1.failed \/ has = {} THEN h1
            ELSE invoicesUpdate(h1, Ref(invoice.id),
                    [NoInvoicePatch EXCEPT !.has = has, !.customer_name = company,
                                           !.custom_fields = cfs],
                    NULL)

handler_p009(req, h) ==
    IF req.method # "POST" THEN Response(405, FALSE, h)
    ELSE IF ~req.env.STRIPE_SECRET_KEY \/ ~req.env.STRIPE_WEBHOOK_SECRET
         THEN Response(500, FALSE, h)
    ELSE IF ~constructEvent(req.body, req.sig, webhookSecret(req)) THEN Response(400, FALSE, h)
    ELSE LET type == EventType(req.body)
             h1 == CASE type = "checkout.session.completed" -> sessionCompleted_p009(h)
                     [] type \in {"invoice.created", "invoice.finalized"} ->
                            invoiceEvent_p009(h, h.snap[req.body])
                     [] OTHER -> h
         IN Answered(h1)

(***************************************************************************)
(* Event Receiver, src/unnamed/part_011                                    *)
(***************************************************************************)
sessionCompleted_p011(h) ==
    LET s == SessionOfEvent
        companyName == getCustomField(s, "company_name")
        taxIdCustom == getCustomField(s, "company_tax_number")
        customFields == buildInvoiceCustomFields("Company", companyName, "Tax ID", taxIdCustom)
    IN IF s.customer.id = NULL THEN h
       ELSE customersUpdate(h, s.customer,
               [NoCustomerPatch EXCEPT
                  !.has = {"metadata"}
                          \cup (IF customFields # <<>> THEN {"custom_fields"} ELSE {}),
                  !.metadata = buildMetadata("company_name", companyName,
                                             "vat_or_tax_id", taxIdCustom),
                  !.custom_fields = customFields],
               NULL)

invoiceFinalized_p011(h, invoice) ==
    IF Len(invoice.custom_fields) > 0 \/ invoice.customer = NULL THEN h
    ELSE LET h1 == customersRetrieve(h, Ref(invoice.customer))
             cf == h1.cust.custom_fields
         IN IF h1.failed \/ cf = <<>> THEN h1
            ELSE invoicesUpdate(h1, Ref(invoice.id),
                    [NoInvoicePatch EXCEPT !.has = {"custom_fields"}, !.custom_fields = cf],
                    NULL)

handler_p011(req, h) ==
    IF req.method # "POST" THEN Response(405, FALSE, h)
    ELSE IF ~req.env.STRIPE_SECRET_KEY \/ ~req.env.STRIPE_WEBHOOK_SECRET
         THEN Response(500, FALSE, h)
    ELSE IF ~constructEvent(req.body, req.sig, webhookSecret(req)) THEN Response(400, FALSE, h)
    ELSE LET type == EventType(req.body)
             h1 == CASE type = "checkout.session.completed" -> sessionCompleted_p011(h)
                     [] type = "invoice.finalized" -> invoiceFinalized_p011(h, h.snap[req.body])
                     [] OTHER -> h
         IN Answered(h1)

(***************************************************************************)
(* Event Receiver, src/unnamed/part_008                                    *)
(***************************************************************************)
patchInvoiceWithCompanyAndTax(h, invoiceId, company, taxno) ==
    LET h1 == invoicesRetrieve(h, invoiceId)
        inv == h1.inv[invoiceId.id]
        newMeta == [k \in InvMetaKeys |->
                      IF k = "company_name" /\ Truthy(company) THEN company
                      ELSE IF k = "company_tax_number" /\ Truthy(taxno) THEN taxno
                      ELSE inv.metadata[k]]
    IN IF h1.failed THEN h1
       ELSE invoicesUpdate(h1, invoiceId,
               [NoInvoicePatch EXCEPT !.has = {"metadata"}, !.metadata = newMeta], NULL)

handleSessionCompleted(h) ==
    LET s == SessionOfEvent
        company == getTextField(s, "company_name")
        taxno == getTextField(s, "company_tax_number")
        h1 == IF Truthy(company) \/ Truthy(taxno)
              THEN customersUpdate(h, s.customer,
                      [NoCustomerPatch EXCEPT
                         !.has = {"metadata"},
                         !.metadata = buildMetadata("company_name", company,
                                                    "company_tax_number", taxno)],
                      NULL)
              ELSE h
        h2 == IF (Truthy(company) \/ Truthy(taxno)) /\ Truthy(company)
              THEN Caught(h1, customersUpdate(h1, s.customer,
                                [NoCustomerPatch EXCEPT !.has = {"name"}, !.name = company],
                                NULL))
              ELSE h1
    IN IF s.customer.id = NULL THEN h
       ELSE IF s.invoice.id = NULL THEN h2
       ELSE Caught(h2, patchInvoiceWithCompanyAndTax(h2, s.invoice, company, taxno))

ensureInvoiceHasCompanyAndTax(h, invoice) ==
    LET meta == invoice.metadata
        hasCompany == Truthy(meta["company_name"])
        hasTax == Truthy(meta["company_tax_number"])
        asks == invoice.customer # NULL /\ (~hasCompany \/ ~hasTax)
        h1 == IF asks THEN customersRetrieve(h, Ref(invoice.customer)) ELSE h
        cm == h1.cust.metadata
        company == IF asks /\ ~hasCompany THEN orEmpty(cm["company_name"])
                   ELSE orEmpty(meta["company_name"])
        taxno == IF asks /\ ~hasTax THEN orEmpty(cm["company_tax_number"])
                 ELSE orEmpty(meta["company_tax_number"])
        h2 == IF asks /\ Truthy(company) /\ h1.cust.name # company
              THEN Caught(h1, customersUpdate(h1, Ref(invoice.customer),
                                [NoCustomerPatch EXCEPT !.has = {"name"}, !.name = company],
                                NULL))
              ELSE h1
    IN IF hasCompany /\ hasTax THEN h
       ELSE IF h1.failed THEN h1
       ELSE IF Truthy(company) \/ Truthy(taxno)
            THEN patchInvoiceWithCompanyAndTax(h2, Ref(invoice.id), company, taxno)
       ELSE h2

handler_p008(req, h) ==
    IF req.method # "POST" THEN Response(405, FALSE, h)
    ELSE IF ~req.env.STRIPE_SECRET_KEY \/ ~req.env.STRIPE_WEBHOOK_SECRET
         THEN Response(500, FALSE, h)
    ELSE IF ~constructEvent(req.body, req.sig, webhookSecret(req)) THEN Response(400, FALSE, h)
    ELSE LET type == EventType(req.body)
             h1 == CASE type = "checkout.session.completed" -> handleSessionCompleted(h)
                     [] type \in {"invoice.created", "invoice.finalized",
                                  "invoice.payment_succeeded"} ->
                            ensureInvoiceHasCompanyAndTax(h, h.snap[req.body])
                     [] OTHER -> h
         IN Answered(h1)

(***************************************************************************)
(* Event Receiver, src/unnamed/part_007 lines 1-145                        *)
(***************************************************************************)
pickCompanyFromCustomer(cust) ==
    LET fromCF == OrElse(findNameLower(cust.custom_fields, "company"),
                         findNameLower(cust.custom_fields, "firmenname"))
    IN IF Truthy(fromCF) THEN fromCF
       ELSE IF Truthy(cust.metadata["company_name"]) THEN cust.metadata["company_name"]
       ELSE orNull(cust.name)

sessionCompleted_p007a(h) ==
    LET s == SessionOfEvent
        companyName == getCustomField(s, "company_name")
        taxNumber == getCustomField(s, "company_tax_number")
        cf == buildInvoiceCustomFields("Company", companyName, "Tax ID", taxNumber)
    IN IF s.customer.id = NULL THEN h
       ELSE customersUpdate(h, s.customer,
               [has |-> {"metadata"}
                        \cup (IF Truthy(companyName) THEN {"name"} ELSE {})
                        \cup (IF cf # <<>> THEN {"custom_fields"} ELSE {}),
                name |-> companyName,
                metadata |-> buildMetadata("company_name", companyName,
                                           "vat_or_tax_id", taxNumber),
                custom_fields |-> cf],
               NULL)

invoiceCreated_p007a(h, invoice) ==
    IF invoice.customer = NULL THEN h
    ELSE LET h1 == customersRetrieve(h, Ref(invoice.customer))
             company == pickCompanyFromCustomer(h1.cust)
             cf == h1.cust.custom_fields
             has == (IF Truthy(company) THEN {"customer_name"} ELSE {})
                    \cup (IF Len(cf) > 0 /\ Len(invoice.custom_fields) = 0
                          THEN {"custom_fields"} ELSE {})
         IN IF h1.failed \/ has = {} THEN h1
            ELSE invoicesUpdate(h1, Ref(invoice.id),
                    [NoInvoicePatch EXCEPT !.has = has, !.customer_name = company,
                                           !.custom_fields = cf],
                    NULL)

invoiceFinalized_p007a(h, invoice) ==
    IF invoice.customer = NULL \/ Truthy(invoice.customer_name) THEN h
    ELSE LET h1 == customersRetrieve(h, Ref(invoice.customer))
             company == pickCompanyFromCustomer(h1.cust)
         IN IF h1.failed \/ ~Truthy(company) THEN h1
            ELSE Caught(h1, invoicesUpdate(h1, Ref(invoice.id),
                              [NoInvoicePatch EXCEPT !.has = {"customer_name"},
                                                     !.customer_name = company],
                              NULL))

handler_p007a(req, h) ==
    IF req.method # "POST" THEN Response(405, FALSE, h)
    ELSE IF ~req.env.STRIPE_SECRET_KEY \/ ~req.env.STRIPE_WEBHOOK_SECRET
         THEN Response(500, FALSE, h)
    ELSE IF ~constructEvent(req.body, req.sig, webhookSecret(req)) THEN Response(400, FALSE, h)
    ELSE LET type == EventType(req.body)
             h1 == CASE type = "checkout.session.completed" -> sessionCompleted_p007a(h)
                     [] type = "invoice.created" -> invoiceCreated_p007a(h, h.snap[req.body])
                     [] type = "invoice.finalized" -> invoiceFinalized_p007a(h, h.snap[req.body])
                     [] OTHER -> h
         IN Answered(h1)

(***************************************************************************)
(* Event Receiver, src/unnamed/part_007 lines 147-284                      *)
(***************************************************************************)
sessionCompleted_p007b(h) ==
    LET s == SessionOfEvent
        company == getCustomField(s, "company_name")
        tax == OrElse(getCustomField(s, "company_tax_number"), getCustomField(s, "tax_id"))
    IN IF s.customer.id = NULL THEN h
       ELSE customersUpdate(h, s.customer,
               [has |-> {"metadata"}
                        \cup (IF Truthy(company) THEN {"name"} ELSE {})
                        \cup (IF Truthy(company) \/ Truthy(tax)
                              THEN {"custom_fields"} ELSE {}),
                name |-> company,
                metadata |-> buildMetadata("company_name", company, "vat_or_tax_id", tax),
                custom_fields |-> buildInvoiceCustomFields("Firma", company, "USt-/VAT", tax)],
               NULL)

invoiceCreated_p007b(h, inv) ==
    IF inv.customer = NULL THEN h
    ELSE LET h1 == customersRetrieve(h, Ref(inv.customer))
             company == orNull(h1.cust.metadata["company_name"])
             tax == orNull(h1.cust.metadata["vat_or_tax_id"])
             cf == buildInvoiceCustomFields("Firma", company, "USt-/VAT", tax)
         IN IF h1.failed \/ ~(Truthy(company) \/ Truthy(tax)) THEN h1
            ELSE invoicesUpdate(h1, Ref(inv.id),
                    [NoInvoicePatch EXCEPT
                       !.has = (IF Truthy(company) THEN {"customer_name"} ELSE {})
                               \cup (IF Len(cf) > 0 THEN {"custom_fields"} ELSE {}),
                       !.customer_name = company,
                       !.custom_fields = cf],
                    NULL)

invoiceFinalized_p007b(h, inv) ==
    IF inv.customer = NULL THEN h
    ELSE LET h1 == customersRetrieve(h, Ref(inv.customer))
             company == orNull(h1.cust.metadata["company_name"])
             tax == orNull(h1.cust.metadata["vat_or_tax_id"])
             cf == IF Len(inv.custom_fields) > 0 THEN inv.custom_fields
                   ELSE buildInvoiceCustomFields("Firma", company, "USt-/VAT", tax)
             has == (IF Truthy(company) /\ inv.customer_name # company
                     THEN {"customer_name"} ELSE {})
                    \cup (IF Len(cf) > 0 /\ Len(inv.custom_fields) = 0
                          THEN {"custom_fields"} ELSE {})
         IN IF h1.failed \/ has = {} THEN h1
            ELSE invoicesUpdate(h1, Ref(inv.id),
                    [NoInvoicePatch EXCEPT !.has = has, !.customer_name = company,
                                           !.custom_fields = cf],
                    NULL)

handler_p007b(req, h) ==
    IF req.method # "POST" THEN Response(405, FALSE, h)
    ELSE IF ~req.env.STRIPE_SECRET_KEY \/ ~req.env.STRIPE_WEBHOOK_SECRET
         THEN Response(500, FALSE, h)
    ELSE IF ~constructEvent(req.body, req.sig, webhookSecret(req)) THEN Response(400, FALSE, h)
    ELSE LET type == EventType(req.body)
             h1 == CASE type = "checkout.session.completed" -> sessionCompleted_p007b(h)
                     [] type = "invoice.created" -> invoiceCreated_p007b(h, h.snap[req.body])
                     [] type = "invoice.finalized" -> invoiceFinalized_p007b(h, h.snap[req.body])
                     [] OTHER -> h
         IN Answered(h1)

(***************************************************************************)
(* Event Receiver, src/unnamed/part_006 lines 1-177                        *)
(***************************************************************************)
buildCustomFieldsFromCustomer(cust) ==
    SelectSeq(cust.custom_fields, LAMBDA item : Truthy(item.name) /\ Truthy(item.value))

upsertCustomerInvoiceFields(h, customerId, companyName, taxId) ==
    LET h1 == customersRetrieve(h, customerId)
        existing == upsert(upsert(h1.cust.custom_fields, "Company", companyName),
                           "Tax ID", taxId)
        newName == IF Truthy(companyName) /\ Truthy(trim(companyName))
                   THEN trim(companyName) ELSE NULL
    IN Caught(h, customersUpdate(h1, customerId,
                    [NoCustomerPatch EXCEPT
                       !.has = {"custom_fields"}
                               \cup (IF Truthy(newName) THEN {"name"} ELSE {}),
                       !.name = newName,
                       !.custom_fields = existing],
                    NULL))

applyCustomerFieldsToInvoice(h, invoiceId, customerId) ==
    LET h1 == customersRetrieve(h, customerId)
        cf == buildCustomFieldsFromCustomer(h1.cust)
        h2 == invoicesRetrieve(h1, invoiceId)
    IN Caught(h,
          IF h1.failed \/ cf = <<>> THEN h1
          ELSE IF h2.failed \/ Len(h2.inv[invoiceId.id].custom_fields) > 0 THEN h2
          ELSE invoicesUpdate(h2, invoiceId,
                  [NoInvoicePatch EXCEPT !.has = {"custom_fields"}, !.custom_fields = cf],
                  NULL))

handler_p006a(req, h) ==
    IF req.method # "POST" THEN Response(405, FALSE, h)
    ELSE IF ~req.env.STRIPE_SECRET_KEY \/ ~req.env.STRIPE_WEBHOOK_SECRET
         THEN Response(500, FALSE, h)
    ELSE IF ~constructEvent(req.body, req.sig, webhookSecret(req)) THEN Response(400, FALSE, h)
    ELSE LET type == EventType(req.body)
             s == SessionOfEvent
             invoice == h.snap[req.body]
             h1 == CASE type = "checkout.session.completed" ->
                            IF s.customer.id = NULL THEN h
                            ELSE upsertCustomerInvoiceFields(h, s.customer,
                                    getCustomField(s, "company_name"),
                                    getCustomField(s, "company_tax_number"))
                     [] type = "invoice.created" ->
                            IF invoice.customer = NULL THEN h
                            ELSE applyCustomerFieldsToInvoice(h, Ref(invoice.id),
                                                              Ref(invoice.customer))
                     [] type = "invoice.finalized" ->
                            IF Len(invoice.custom_fields) > 0 \/ invoice.customer = NULL THEN h
                            ELSE applyCustomerFieldsToInvoice(h, Ref(invoice.id),
                                                              Ref(invoice.customer))
                     [] OTHER -> h
         IN Answered(h1)

(***************************************************************************)
(* Event Receiver, src/unnamed/part_006 lines 179-366                      *)
(***************************************************************************)
\* trim, upper-case, drop blanks, prefix "DE" when no country prefix is typed
normalizeEuVat(raw) ==
    IF ~Truthy(raw) THEN EMPTY
    ELSE CASE raw = "123456789"     -> "DE123456789"
           [] raw = "de 123456789"  -> "DE123456789"
           [] raw = "atu999"        -> "ATU999"
           [] OTHER                 -> raw

customersListTaxIds(h, ref) ==
    IF h.failed THEN h
    ELSE LET g == Resumed(h)
         IN Awaited(h, {"customer"},
               Record(g, "customers.listTaxIds", ref, {}, NULL,
                      Outcome(g, ref, NULL, FALSE)))

\* the customer holds an eu_vat tax id with this value
hasTaxId(cust, val) == \E k \in 1..Len(cust.tax_ids) : cust.tax_ids[k] = val

\* Whether the provider refuses a second tax id with the same value is its
\* choice (unique).
customersCreateTaxId(h, ref, val) ==
    IF h.failed THEN h
    ELSE LET g == Resumed(h)
             o == Outcome(g, ref, NULL, g.unique /\ hasTaxId(g.cust, val))
             h1 == Record(g, "customers.createTaxId", ref, {}, NULL, o)
         IN Awaited(h, {"customer"},
               IF o = "ok" THEN [h1 EXCEPT !.cust.tax_ids = Append(@, val)] ELSE h1)

ensureCustomerTaxId(h, customerId, value) ==
    IF customerId.id = NULL \/ ~Truthy(value) \/ ~Truthy(normalizeEuVat(value)) THEN h
    ELSE LET val == normalizeEuVat(value)
             h1 == customersListTaxIds(h, customerId)
         IN IF h1.failed \/ hasTaxId(h1.cust, val) THEN h1
            ELSE customersCreateTaxId(h1, customerId, val)

updateInvoiceCustomerFace(h, invoiceId, company, fallbackName) ==
    IF invoiceId.id = NULL THEN h
    ELSE LET h1 == invoicesRetrieve(h, invoiceId)
             inv == h1.inv[invoiceId.id]
         IN IF h1.failed \/ inv.status \notin {"draft", "open", "uncollectible"} THEN h1
            ELSE invoicesUpdate(h1, invoiceId,
                    [NoInvoicePatch EXCEPT
                       !.has = IF Truthy(company) \/ Truthy(fallbackName)
                               THEN {"customer_name"} ELSE {},
                       !.customer_name = OrElse(company, fallbackName)],
                    NULL)

sessionCompleted_p006b(h) ==
    LET s == SessionOfEvent
        company == getTextField(s, "company_name")
        taxNo == getTextField(s, "company_tax_number")
        h1 == customersUpdate(h, s.customer,
                 [NoCustomerPatch EXCEPT
                    !.has = {"metadata"} \cup (IF Truthy(company) THEN {"name"} ELSE {}),
                    !.name = company,
                    !.metadata = buildMetadata("company_name", company,
                                               "vat_or_tax_id", taxNo)],
                 NULL)
        h2 == IF Truthy(taxNo) THEN ensureCustomerTaxId(h1, s.customer, taxNo) ELSE h1
        h3 == IF s.invoice.id # NULL
              THEN updateInvoiceCustomerFace(h2, s.invoice, company,
                                             orEmpty(s.customer_details_name))
              ELSE h2
    IN IF s.customer.id = NULL THEN h ELSE Caught(h, h3)

invoiceCreated_p006b(h, inv) ==
    IF inv.customer = NULL THEN h
    ELSE LET h1 == customersRetrieve(h, Ref(inv.customer))
             company == orEmpty(h1.cust.metadata["company_name"])
             taxNo == orEmpty(h1.cust.metadata["vat_or_tax_id"])
             h2 == IF Truthy(taxNo) THEN ensureCustomerTaxId(h1, Ref(inv.customer), taxNo)
                   ELSE h1
             fallbackName == OrElse(h1.cust.name, orEmpty(inv.customer_name))
         IN Caught(h, updateInvoiceCustomerFace(h2, Ref(inv.id), company, fallbackName))

invoiceFinalized_p006b(h, inv) ==
    LET h1 == IF inv.customer # NULL THEN customersRetrieve(h, Ref(inv.customer)) ELSE h
        company == IF inv.customer # NULL THEN orEmpty(h1.cust.metadata["company_name"])
                   ELSE EMPTY
        taxNo == IF inv.customer # NULL THEN orEmpty(h1.cust.metadata["vat_or_tax_id"])
                 ELSE EMPTY
        h2 == IF Truthy(taxNo) /\ inv.customer # NULL
              THEN ensureCustomerTaxId(h1, Ref(inv.customer), taxNo) ELSE h1
        fallbackName == OrElse(IF inv.customer # NULL THEN h1.cust.name ELSE NULL,
                               orEmpty(inv.customer_name))
    IN Caught(h, updateInvoiceCustomerFace(h2, Ref(inv.id), company, fallbackName))

\* both the try block and the catch block answer 200
answer_p006b(h) == Response(IF h.failed THEN 200 ELSE 200, TRUE, h)

handler_p006b(req, h) ==
    IF req.method # "POST" THEN Response(405, FALSE, h)
    ELSE IF ~req.env.STRIPE_SECRET_KEY \/ ~req.env.STRIPE_WEBHOOK_SECRET
         THEN Response(500, FALSE, h)
    ELSE IF ~constructEvent(req.body, req.sig, webhookSecret(req)) THEN Response(400, FALSE, h)
    ELSE LET type == EventType(req.body)
             h1 == CASE type = "checkout.session.completed" -> sessionCompleted_p006b(h)
                     [] type = "invoice.created" -> invoiceCreated_p006b(h, h.snap[req.body])
                     [] type = "invoice.finalized" -> invoiceFinalized_p006b(h, h.snap[req.body])
                     [] OTHER -> h
         IN answer_p006b(h1)

(***************************************************************************)
(* Event Receiver, src/unnamed/part_007 lines 286-469                      *)
(***************************************************************************)
\* (v ?? "").toString().trim(), null when nothing is left
trimOrNull(v) == orNull(trimOrEmpty(v))

\* the idempotency key of a call that drops the event id
idempotencyKey_perResource(prefix, ref, eventId) == prefix \o "-" \o TemplateStr(ref)

\* `${prefix}-${id}-${eventId}`, the idempotency key of a mutating call
idempotencyKey(prefix, ref, eventId) ==
    prefix \o "-" \o TemplateStr(ref) \o "-" \o eventId

getCompanyFieldsFromSession_p007c(s) ==
    [companyName |-> trimOrNull(findKey(s.custom_fields, "company_name")),
     taxNumber |-> trimOrNull(findKey(s.custom_fields, "company_tax_number"))]

\* findLatestDraftInvoiceForCustomer: the context after the call, and the invoice found
findLatestDraftInvoiceForCustomer(h, customerId) ==
    LET h1 == invoicesListDraft(h, customerId)
    IN [h |-> h1, invoice |-> IF h1.failed THEN NULL ELSE LatestDraft(h1)]

setCustomerInvoiceDefaults(h, customerId, fields, eventId) ==
    LET customFields == buildInvoiceCustomFields("Company", fields.companyName,
                                                 "Tax ID", fields.taxNumber)
    IN IF customFields = <<>> THEN h
       ELSE customersUpdate(h, customerId,
               [NoCustomerPatch EXCEPT !.has = {"custom_fields"},
                                       !.custom_fields = customFields],
               idempotencyKey("cust-invoice-defaults", customerId, eventId))

applyFieldsToDraft(h, invoice, fields, eventId) ==
    LET customFields == buildInvoiceCustomFields("Company", fields.companyName,
                                                 "Tax ID", fields.taxNumber)
    IN IF invoice.status # "draft" \/ customFields = <<>> THEN h
       ELSE invoicesUpdate(h, Ref(invoice.id),
               [NoInvoicePatch EXCEPT !.has = {"custom_fields", "auto_advance"},
                                      !.custom_fields = customFields,
                                      !.auto_advance = FALSE],
               idempotencyKey("inv-update", Ref(invoice.id), eventId))

pauseAutoAdvance(h, invoiceId, eventId) ==
    invoicesUpdate(h, invoiceId,
       [NoInvoicePatch EXCEPT !.has = {"auto_advance"}, !.auto_advance = FALSE],
       idempotencyKey("inv-pause", invoiceId, eventId))

\* a handling that goes on to pay without having finalized
finalizeInvoice_skipped(h, invoiceId, eventId) == h

finalizeInvoice(h, invoiceId, eventId) ==
    invoicesFinalize(h, invoiceId, idempotencyKey("inv-finalize", invoiceId, eventId))

payInvoice(h, invoiceId, eventId) ==
    invoicesPay(h, invoiceId, idempotencyKey("inv-pay", invoiceId, eventId))

stashFieldsOnCustomer(h, customerId, fields, eventId) ==
    IF ~Truthy(fields.companyName) /\ ~Truthy(fields.taxNumber) THEN h
    ELSE customersUpdate(h, customerId,
            [NoCustomerPatch EXCEPT
               !.has = {"metadata"},
               !.metadata = buildMetadata("company_name_from_checkout", fields.companyName,
                                          "company_tax_number_from_checkout",
                                          fields.taxNumber)],
            idempotencyKey("cust-stash", customerId, eventId))

readStashedFieldsFromCustomer(cust) ==
    [companyName |-> trimOrNull(cust.metadata["company_name_from_checkout"]),
     taxNumber |-> trimOrNull(cust.metadata["company_tax_number_from_checkout"])]

\* if (invoice && invoice.status === "draft"): fields, finalize, pay
settleDraft_p007c(found, fields, eventId) ==
    LET h4 == found.h
        invoice == IF found.invoice = NULL THEN NoInvoice ELSE h4.inv[found.invoice]
    IN IF h4.failed \/ found.invoice = NULL \/ invoice.status # "draft" THEN h4
       ELSE payInvoice(
               finalizeInvoice(applyFieldsToDraft(h4, invoice, fields, eventId),
                               Ref(invoice.id), eventId),
               Ref(invoice.id), eventId)

sessionCompleted_p007c(h) ==
    LET h1 == sessionsRetrieve(h, Ref(SessionId))
        s == SessionView({"invoice", "customer", "subscription.latest_invoice",
                          "payment_intent"})
        fields == getCompanyFieldsFromSession_p007c(s)
        customerId == s.customer
        h2 == IF customerId.id # NULL
              THEN stashFieldsOnCustomer(
                      setCustomerInvoiceDefaults(h1, customerId, fields, h.event),
                      customerId, fields, h.event)
              ELSE h1
        \* let invoice = session.invoice, else the subscription's, else the latest draft
        h3 == IF s.invoice.id = NULL /\ s.latest_invoice.id # NULL
              THEN invoicesRetrieve(h2, s.latest_invoice)
              ELSE h2
        viaSubscription == IF s.invoice.id = NULL /\ s.latest_invoice.id # NULL /\ ~h3.failed
                           THEN s.latest_invoice.id ELSE s.invoice.id
        found == IF viaSubscription = NULL /\ customerId.id # NULL
                 THEN findLatestDraftInvoiceForCustomer(h3, customerId)
                 ELSE [h |-> h3, invoice |-> viaSubscription]
    IN settleDraft_p007c(found, fields, h.event)

invoiceCreated_p007c(h, invoice) ==
    IF invoice.id = NULL THEN h
    ELSE pauseAutoAdvance(h, Ref(invoice.id), h.event)

\* lines 463 and 467: the try block and the catch block answer alike
respond_p007c(h) == IF h.failed THEN 200 ELSE 200

answer_p007c(h) == Response(respond_p007c(h), TRUE, h)

handler_p007c(req, h) ==
    IF req.method # "POST" THEN Response(405, FALSE, h)
    ELSE IF ~constructEvent(req.body, req.sig,
                            OrElse(webhookSecret(req), HardcodedSecret))
         THEN Response(400, FALSE, h)
    ELSE LET type == EventType(req.body)
             h1 == CASE type = "invoice.created" -> invoiceCreated_p007c(h, h.snap[req.body])
                     [] type = "checkout.session.completed" -> sessionCompleted_p007c(h)
                     [] OTHER -> h
         IN answer_p007c(h1)

(***************************************************************************)
(* Event Receiver, src/unnamed/part_010                                    *)
(***************************************************************************)
getCompanyFieldsFromSession_p010(s) ==
    [companyName |-> orNull(trimOrEmpty(findKey(s.custom_fields, "company_name"))),
     taxNumber |-> orNull(trimOrEmpty(findKey(s.custom_fields, "company_tax_number")))]

\* `invoice' is the object the caller holds: its status is the one it was read with
applyFieldsAndFinalizeInvoice(h, invoice, fields, eventId) ==
    LET customFields == buildInvoiceCustomFields("Company", fields.companyName,
                                                 "Tax ID", fields.taxNumber)
        h1 == invoicesUpdate(h, Ref(invoice.id),
                 [NoInvoicePatch EXCEPT
                    !.has = IF customFields # <<>> THEN {"custom_fields"} ELSE {},
                    !.custom_fields = customFields],
                 idempotencyKey("inv-update", Ref(invoice.id), eventId))
    IN IF customFields = <<>> /\ ~Truthy(fields.companyName) THEN h
       ELSE IF invoice.status \in {"draft", "open"}
            THEN invoicesFinalize(h1, Ref(invoice.id),
                                  idempotencyKey("inv-finalize", Ref(invoice.id), eventId))
       ELSE h1

sessionCompleted_p010(h) ==
    LET h1 == sessionsRetrieve(h, Ref(SessionId))
        s == SessionView({"invoice", "customer", "payment_intent"})
        fields == getCompanyFieldsFromSession_p010(s)
        customerId == s.customer
        found == IF s.invoice.id = NULL /\ customerId.id # NULL
                 THEN findLatestDraftInvoiceForCustomer(h1, customerId)
                 ELSE [h |-> h1, invoice |-> s.invoice.id]
        h2 == found.h
    IN IF h2.failed THEN h2
       ELSE IF found.invoice # NULL
            THEN applyFieldsAndFinalizeInvoice(h2, h2.inv[found.invoice], fields, h.event)
       ELSE IF customerId.id # NULL
            THEN stashFieldsOnCustomer(h2, customerId, fields, h.event)
       ELSE h2

invoiceCreated_p010(h, invoice) ==
    IF invoice.status # "draft" \/ invoice.auto_advance \/ invoice.customer = NULL THEN h
    ELSE LET h1 == customersRetrieve(h, Ref(invoice.customer))
             fields == readStashedFieldsFromCustomer(h1.cust)
         IN IF h1.failed \/ (~Truthy(fields.companyName) /\ ~Truthy(fields.taxNumber)) THEN h1
            ELSE applyFieldsAndFinalizeInvoice(h1, invoice, fields, h.event)

\* lines 179 and 183: the try block and the catch block answer alike
respond_p010(h) == IF h.failed THEN 200 ELSE 200

answer_p010(h) == Response(respond_p010(h), TRUE, h)

handler_p010(req, h) ==
    IF req.method # "POST" THEN Response(405, FALSE, h)
    ELSE IF ~constructEvent(req.body, req.sig, webhookSecret(req)) THEN Response(400, FALSE, h)
    ELSE LET type == EventType(req.body)
             h1 == CASE type = "checkout.session.completed" -> sessionCompleted_p010(h)
                     [] type = "invoice.created" -> invoiceCreated_p010(h, h.snap[req.body])
                     [] OTHER -> h
         IN answer_p010(h1)

(***************************************************************************)
(* The deployed revision                                                   *)
(***************************************************************************)
Revisions == {"sw1", "sw2", "track", "p006a", "p006b", "p007a", "p007b", "p007c",
              "p008", "p009", "p010", "p011"}

\* The event types a revision's switch gives a case that acts; every other type
\* reaches `default' or a case that only logs or breaks.
HandledTypes(rv) ==
    CASE rv = "track" -> {"checkout.session.completed"}
      [] rv \in {"sw1", "p007c", "p010"} -> {"checkout.session.completed", "invoice.created"}
      [] rv = "p011" -> {"checkout.session.completed", "invoice.finalized"}
      [] rv = "p008" -> {"checkout.session.completed", "invoice.created",
                        "invoice.finalized", "invoice.payment_succeeded"}
      [] OTHER -> {"checkout.session.completed", "invoice.created", "invoice.finalized"}

handler(rv, req, h) ==
    CASE rv = "sw1"   -> handler_sw1(req, h)
      [] rv = "sw2"   -> handler_sw2(req, h)
      [] rv = "track" -> handler_track(req, h)
      [] rv = "p006a" -> handler_p006a(req, h)
      [] rv = "p006b" -> handler_p006b(req, h)
      [] rv = "p007a" -> handler_p007a(req, h)
      [] rv = "p007b" -> handler_p007b(req, h)
      [] rv = "p007c" -> handler_p007c(req, h)
      [] rv = "p008"  -> handler_p008(req, h)
      [] rv = "p009"  -> handler_p009(req, h)
      [] rv = "p010"  -> handler_p010(req, h)
      [] OTHER        -> handler_p011(req, h)

(***************************************************************************)
(* Session Initiator: requests, and the provider's API as the revisions    *)
(* use it.  A handler runs on a context h: the provider's customers, the   *)
(* checkout sessions the request has created, the calls made so far,       *)
(* whether an exception is propagating, and the handler's local customerId.*)
(***************************************************************************)
(* Cross-origin headers: the first lines of the Session Initiator, the     *)
(* Confirmation Poller and the relay handlers                              *)
(***************************************************************************)
Storefront == "https://ai-business-engine.com"
Webflow == "https://baramiai-c98bd4c508b71b1b1c91ae95c029fc.webflow.io"

\* the Origin header of a request: absent, a storefront origin, a placeholder
\* of one allow-list, any other site
Origins == {NULL, Storefront, "https://www.ai-business-engine.com", Webflow,
            "https://DEIN-STAGING.webflow.io", "https://evil.example"}

ALLOWED == {Storefront, "https://www.ai-business-engine.com", Webflow}
ALLOWED_track == {Storefront, "https://DEIN-STAGING.webflow.io"}
ALLOWED_p005c == {Storefront, Webflow}

NoHeaders ==
    [allowOrigin |-> NULL, allowMethods |-> NULL, allowHeaders |-> NULL, vary |-> NULL]

\* const origin = req.headers.origin || ""; the four (three) setHeader lines
setCorsHeaders(allowed, header, vary) ==
    LET origin == OrElse(header, EMPTY)
    IN [allowOrigin |-> IF origin \in allowed THEN origin ELSE NULL,
        allowMethods |-> "POST, OPTIONS",
        allowHeaders |-> "Content-Type",
        vary |-> IF vary THEN "Origin" ELSE NULL]

(***************************************************************************)
SupportedPlans == {"one_time", "split_2", "split_3",
                   "aibe_pif", "aibe_split_2", "aibe_split_3"}

\* Property names every object literal inherits from Object.prototype, and the
\* value found under them (a function: truthy, not a string).
ObjectPrototype == {"constructor", "toString"}
Function == "<function>"

\* process.env of the Session Initiator
FrontEnvOk ==
    [STRIPE_SECRET_KEY |-> TRUE, PRICE_ONE_TIME |-> "price_pif",
     PRICE_SPLIT_2 |-> "price_split2", PRICE_SPLIT_3 |-> "price_split3",
     USE_INLINE_PRICE_DATA |-> FALSE]
FrontEnvs ==
    {FrontEnvOk,
     [FrontEnvOk EXCEPT !.STRIPE_SECRET_KEY = FALSE],
     [FrontEnvOk EXCEPT !.PRICE_SPLIT_3 = NULL],
     [FrontEnvOk EXCEPT !.PRICE_ONE_TIME = NULL],
     [FrontEnvOk EXCEPT !.USE_INLINE_PRICE_DATA = TRUE]}

\* the JSON body: a member that is absent is NULL
Body(plan, email, name, companyName, promotionCode) ==
    [plan |-> plan, email |-> email, name |-> name,
     companyName |-> companyName, taxNumber |-> NULL, promotionCode |-> promotionCode]

\* a request of the checkout page, sent from the storefront
FrontRequest(method, env, body, failAt) ==
    [method |-> method, env |-> env, body |-> body, failAt |-> failAt,
     origin |-> Storefront]

\* const { x = d } = body: the default applies to an absent member only
orDefault(v, d) == IF v = NULL THEN d ELSE v

\* customers: the provider's customers as the request's last response showed
\* them. For a request handled while others are (live): now is what the
\* provider holds, log the responses the request has got so far, halted that it
\* waits for the response of the call it has just made.
FrontContext(req, auth) ==
    [customers |-> customers, created |-> {}, calls |-> <<>>, failed |-> FALSE,
     failAt |-> req.failAt, auth |-> auth, customerId |-> NULL,
     live |-> FALSE, halted |-> FALSE, log |-> <<>>, now |-> customers]

Reply(status, h) == [status |-> status, h |-> h]

\* How a call of the Session Initiator ends: the k-th call of the request may fail
\* in transit, the provider refuses a request without a valid secret key, the
\* provider may reject the parameters; otherwise the call is executed.
Ends(h, rejects) ==
    IF Len(h.calls) + 1 = h.failAt THEN "fault"
    ELSE IF ~h.auth \/ rejects THEN "rejected"
    ELSE "ok"

Call(h, op, params, o) ==
    [h EXCEPT !.calls = Append(@, [op |-> op, params |-> params, outcome |-> o]),
              !.failed = Threw(o)]

\* ids the provider gives the customers it creates, in order of creation
BuyerIds == <<"cus_1", "cus_2", "cus_3", "cus_4", "cus_5", "cus_6">>

\* customers.list({ email, limit: 1 }): the newest customer with that email, 0 if none
RECURSIVE FoundFrom(_, _, _)
FoundFrom(cs, email, i) ==
    IF i = 0 THEN 0
    ELSE IF cs[i].email = email THEN i
    ELSE FoundFrom(cs, email, i - 1)
Found(cs, email) == FoundFrom(cs, email, Len(cs))

\* the context a call is made in: the provider acts on what it holds now
FrontResumed(h) == IF h.live THEN [h EXCEPT !.customers = h.now] ELSE h

FrontReplayed(h, e) ==
    [h EXCEPT !.calls = Append(@, e.call), !.failed = Threw(e.call.outcome),
              !.customers = e.customers, !.customerId = e.customerId,
              !.created = e.created]

FrontSuspended(x) ==
    [x EXCEPT !.now = x.customers,
              !.log = Append(@, [call |-> x.calls[Len(x.calls)], customers |-> x.customers,
                                 customerId |-> x.customerId, created |-> x.created]),
              !.halted = TRUE,
              !.failed = TRUE]

\* the context after `await': x is what making the call in FrontResumed(h) has
\* led to. A live request gets a response it had before from its log, and stops
\* at the first call it had not made yet.
FrontAwaited(h, x) ==
    IF ~h.live THEN x
    ELSE IF Len(h.calls) < Len(h.log) THEN FrontReplayed(h, h.log[Len(h.calls) + 1])
    ELSE FrontSuspended(x)

customersListAt(g, email) == Call(g, "customers.list", [email |-> email], Ends(g, FALSE))

customersList(h, email) ==
    IF h.failed THEN h ELSE FrontAwaited(h, customersListAt(FrontResumed(h), email))

\* customers.create(params); blank: some parameter is passed as "", which the
\* provider may refuse
customersCreateAt(g, params, blank) ==
    LET o == Ends(g, emptyRefused /\ blank)
        h1 == Call(g, "customers.create", params, o)
    IN IF o = "ok"
       THEN [h1 EXCEPT !.customers = Append(@, params),
                       !.customerId = BuyerIds[Len(g.customers) + 1]]
       ELSE h1

customersCreate(h, params, blank) ==
    IF h.failed THEN h
    ELSE FrontAwaited(h, customersCreateAt(FrontResumed(h), params, blank))

\* customers.update(id, { name }) on the i-th customer
customersUpdateNameAt(g, i, name) ==
    LET o == Ends(g, FALSE)
        h1 == Call(g, "customers.update", [id |-> BuyerIds[i], name |-> name], o)
    IN IF o = "ok" THEN [h1 EXCEPT !.customers[i].name = name] ELSE h1

customersUpdateName(h, i, name) ==
    IF h.failed THEN h
    ELSE FrontAwaited(h, customersUpdateNameAt(FrontResumed(h), i, name))

\* promotionCodes.list({ code, active: true, limit: 1 }): the id of the code, if any
PromotionCodeId(code) == IF code = "AIBE-100TEST" THEN "promo_1" ELSE NULL

promotionCodesListAt(g, code) ==
    Call(g, "promotionCodes.list", [code |-> code], Ends(g, FALSE))

promotionCodesList(h, code) ==
    IF h.failed THEN h ELSE FrontAwaited(h, promotionCodesListAt(FrontResumed(h), code))

\* ---- checkout.sessions.create ------------------------------------------
LineItem(price) == [price |-> price, price_data |-> NULL, quantity |-> 1]
InlineItem(cfg) == [price |-> NULL, price_data |-> cfg, quantity |-> 1]

\* a parameter the handler leaves undefined is NULL (FALSE for an object)
NoSessionParams ==
    [ui_mode |-> "embedded", mode |-> NULL, line_items |-> <<>>,
     customer |-> NULL, customer_email |-> NULL,
     customer_update |-> FALSE, customer_creation |-> NULL,
     payment_intent_data |-> FALSE, subscription_data |-> FALSE,
     invoice_creation |-> FALSE, success_url |-> FALSE,
     allow_promotion_codes |-> FALSE, discounts |-> NULL,
     custom_fields |-> <<>>, return_plan |-> NULL, return_total |-> NULL]

ConfiguredPrices == {"price_pif", "price_split2", "price_split3",
                     "price_1SEoGeGB35pnerjHSWvzb2Ws"}

\* a line item that names no price of the account and carries no usable price_data
BadItem(it) ==
    IF it.price # NULL THEN it.price \notin ConfiguredPrices
    ELSE it.price_data \in {NULL, Function}

\* What the provider refuses: a line item that names no price of the account, a
\* parameter of the other mode, success_url on an embedded session, customer
\* together with customer_email, customer_update without a customer, a parameter
\* passed as "", discounts together with allow_promotion_codes.
SessionCreateRejected(p) ==
    \/ p.mode \in {"payment", "subscription"} /\ Len(p.line_items) # 1
    \/ \E i \in 1..Len(p.line_items) : BadItem(p.line_items[i])
    \/ p.mode = "subscription"
       /\ (p.payment_intent_data \/ p.invoice_creation \/ p.customer_creation # NULL)
    \/ p.mode = "payment" /\ p.subscription_data
    \/ p.ui_mode = "embedded" /\ p.success_url
    \/ p.customer # NULL /\ p.customer_email # NULL
    \/ p.customer_update /\ p.customer = NULL
    \/ p.customer_email = EMPTY
    \/ p.discounts # NULL /\ p.allow_promotion_codes

sessionsCreateAt(g, p) ==
    LET o == Ends(g, SessionCreateRejected(p))
        h1 == Call(g, "checkout.sessions.create", p, o)
    IN IF o = "ok" THEN [h1 EXCEPT !.created = @ \cup {p}] ELSE h1

sessionsCreate(h, p) ==
    IF h.failed THEN h ELSE FrontAwaited(h, sessionsCreateAt(FrontResumed(h), p))

\* ---- what the revisions share ------------------------------------------
\* map[plan] / priceMap[plan]: an own property, else what Object.prototype holds
\* under that name, else undefined
priceMap(env, plan) ==
    CASE plan \in {"one_time", "aibe_pif"}     -> env.PRICE_ONE_TIME
      [] plan \in {"split_2", "aibe_split_2"}  -> env.PRICE_SPLIT_2
      [] plan \in {"split_3", "aibe_split_3"}  -> env.PRICE_SPLIT_3
      [] plan \in ObjectPrototype              -> Function
      [] OTHER                                 -> NULL

\* totals[plan] || ""
totals(plan) ==
    CASE plan = "aibe_pif"     -> "499"
      [] plan = "aibe_split_2" -> "515"
      [] plan = "aibe_split_3" -> "525"
      [] plan \in ObjectPrototype -> Function
      [] OTHER                 -> EMPTY

\* a mode that books every installment plan as a one-time payment
modeOf_payment(plan) == "payment"

\* ["split_2","aibe_split_2","split_3","aibe_split_3"].includes(plan)
isSub(plan) == plan \in {"split_2", "aibe_split_2", "split_3", "aibe_split_3"}
modeOf(plan) == IF isSub(plan) THEN "subscription" ELSE "payment"

TwoCustomFields == <<"company_name", "company_tax_number">>

\* a customer block that always creates
findOrCreateCustomer_always(h, email, name) ==
    IF ~Truthy(email) THEN h
    ELSE customersCreate(customersList(h, email), [email |-> email, name |-> name],
                         name = EMPTY)

\* if (email) { list; found ? (update name if empty) : create }
findOrCreateCustomer(h, email, name) ==
    IF ~Truthy(email) THEN h
    ELSE LET h1 == customersList(h, email)
             i == Found(h1.customers, email)
         IN IF h1.failed THEN h1
            ELSE IF i # 0
            THEN LET h2 == [h1 EXCEPT !.customerId = BuyerIds[i]]
                 IN IF Truthy(name) /\ ~Truthy(h1.customers[i].name)
                    THEN customersUpdateName(h2, i, name)
                    ELSE h2
            ELSE customersCreate(h1, [email |-> email, name |-> name], name = EMPTY)

\* if (!price) 400; else create the session; 200, or 500 from the catch block
finish(h, p) ==
    LET h1 == sessionsCreate(h, p)
    IN Reply(IF h1.failed THEN 500 ELSE 200, h1)

\* OPTIONS is answered 200, any other method than POST 405 (0: go on)
preflight(req) ==
    IF req.method = "OPTIONS" THEN 200
    ELSE IF req.method # "POST" THEN 405
    ELSE 0

\* payment_intent_data for a payment, subscription_data for a subscription
withModeData(p) ==
    [p EXCEPT !.payment_intent_data = (p.mode = "payment"),
              !.subscription_data = (p.mode # "payment")]

\* customer: customerId || undefined, customer_email: customerId ? undefined : (email || undefined)
withCustomer(p, customerId, email) ==
    [p EXCEPT !.customer = customerId,
              !.customer_email = IF customerId # NULL THEN NULL ELSE orNull(email)]

baseParams(plan, price) ==
    [NoSessionParams EXCEPT !.mode = modeOf(plan), !.line_items = <<LineItem(price)>>,
                            !.return_plan = plan, !.return_total = totals(plan),
                            !.custom_fields = TwoCustomFields]

(***************************************************************************)
(* Session Initiator, src/api/checkout-session.js lines 1-127              *)
(***************************************************************************)
handler_cs1(req, h) ==
    IF preflight(req) # 0 THEN Reply(preflight(req), h)
    ELSE IF ~req.env.STRIPE_SECRET_KEY THEN Reply(500, h)
    ELSE LET plan == orDefault(req.body.plan, "one_time")
             email == orDefault(req.body.email, EMPTY)
             name == orDefault(req.body.name, EMPTY)
             price == priceMap(req.env, plan)
             h1 == findOrCreateCustomer(h, email, name)
             p == [withModeData(withCustomer(baseParams(plan, price), h1.customerId, email))
                     EXCEPT !.custom_fields = <<"company_name">>,
                            !.customer_update = (h1.customerId # NULL)]
         IN IF ~Truthy(price) THEN Reply(400, h) ELSE finish(h1, p)

(***************************************************************************)
(* Session Initiator, src/api/checkout-session.js lines 129-260            *)
(***************************************************************************)
handler_cs2(req, h) ==
    IF preflight(req) # 0 THEN Reply(preflight(req), h)
    ELSE IF ~req.env.STRIPE_SECRET_KEY THEN Reply(500, h)
    ELSE LET plan == orDefault(req.body.plan, "one_time")
             email == orDefault(req.body.email, EMPTY)
             name == orDefault(req.body.name, EMPTY)
             price == priceMap(req.env, plan)
             h1 == findOrCreateCustomer(h, email, name)
             p == [withModeData(withCustomer(baseParams(plan, price), h1.customerId, email))
                     EXCEPT !.invoice_creation = (modeOf(plan) = "payment")]
         IN IF ~Truthy(price) THEN Reply(400, h) ELSE finish(h1, p)

(***************************************************************************)
(* Session Initiator, src/api/confirm-session.js                           *)
(***************************************************************************)
handler_cf(req, h) ==
    IF preflight(req) # 0 THEN Reply(preflight(req), h)
    ELSE IF ~req.env.STRIPE_SECRET_KEY THEN Reply(500, h)
    ELSE LET plan == orDefault(req.body.plan, "one_time")
             email == orDefault(req.body.email, EMPTY)
             price == priceMap(req.env, plan)
             payment == modeOf(plan) = "payment"
             p == [withModeData(baseParams(plan, price))
                     EXCEPT !.customer_email = orNull(email),
                            !.customer_creation = IF payment THEN "always" ELSE NULL,
                            !.invoice_creation = payment]
         IN IF ~Truthy(price) THEN Reply(400, h) ELSE finish(h, p)

(***************************************************************************)
(* Session Initiator, src/unnamed/part_000                                 *)
(***************************************************************************)
handler_p000(req, h) ==
    IF preflight(req) # 0 THEN Reply(preflight(req), h)
    ELSE IF ~req.env.STRIPE_SECRET_KEY THEN Reply(500, h)
    ELSE LET plan == orDefault(req.body.plan, "one_time")
             price == priceMap(req.env, plan)
             p == [baseParams(plan, price)
                     EXCEPT !.success_url = TRUE, !.invoice_creation = TRUE,
                            !.custom_fields = <<"company_name">>,
                            !.customer_creation = "if_required",
                            !.payment_intent_data = TRUE]
         IN IF ~Truthy(price) THEN Reply(400, h) ELSE finish(h, p)

(***************************************************************************)
(* Session Initiator, src/unnamed/part_001 lines 1-138                     *)
(***************************************************************************)
handler_p001a(req, h) ==
    IF preflight(req) # 0 THEN Reply(preflight(req), h)
    ELSE IF ~req.env.STRIPE_SECRET_KEY THEN Reply(500, h)
    ELSE LET plan == orDefault(req.body.plan, "one_time")
             email == orDefault(req.body.email, EMPTY)
             name == orDefault(req.body.name, EMPTY)
             price == priceMap(req.env, plan)
             h1 == findOrCreateCustomer(h, email, name)
             p == [withCustomer(baseParams(plan, price), h1.customerId, email)
                     EXCEPT !.custom_fields = <<"company_name", "tax_number">>,
                            !.payment_intent_data = TRUE,
                            !.subscription_data = isSub(plan)]
         IN IF ~Truthy(price) THEN Reply(400, h) ELSE finish(h1, p)

(***************************************************************************)
(* Session Initiator, src/unnamed/part_001 lines 140-256                   *)
(***************************************************************************)
handler_p001b(req, h) ==
    IF preflight(req) # 0 THEN Reply(preflight(req), h)
    ELSE IF ~req.env.STRIPE_SECRET_KEY THEN Reply(500, h)
    ELSE LET plan == orDefault(req.body.plan, "one_time")
             price == priceMap(req.env, plan)
             p == [withModeData(baseParams(plan, price))
                     EXCEPT !.invoice_creation = (modeOf(plan) = "payment")]
         IN IF ~Truthy(price) THEN Reply(400, h) ELSE finish(h, p)

(***************************************************************************)
(* Session Initiator, src/unnamed/part_002 lines 1-147                     *)
(***************************************************************************)
handler_p002a(req, h) ==
    IF preflight(req) # 0 THEN Reply(preflight(req), h)
    ELSE IF ~req.env.STRIPE_SECRET_KEY THEN Reply(500, h)
    ELSE LET plan == orDefault(req.body.plan, "one_time")
             email == orDefault(req.body.email, EMPTY)
             name == orDefault(req.body.name, EMPTY)
             price == priceMap(req.env, plan)
             h1 == findOrCreateCustomer(h, email, name)
             p == [withModeData(withCustomer(baseParams(plan, price), h1.customerId, email))
                     EXCEPT !.customer_update = TRUE,
                            !.invoice_creation = (modeOf(plan) = "payment")]
         IN IF ~Truthy(price) THEN Reply(400, h) ELSE finish(h1, p)

(***************************************************************************)
(* Session Initiator, src/unnamed/part_002 lines 149-318                   *)
(***************************************************************************)
\* INLINE[plan]
INLINE(plan) ==
    CASE plan \in SupportedPlans  -> IF isSub(plan) THEN "eur/month" ELSE "eur"
      [] plan \in ObjectPrototype -> Function
      [] OTHER                    -> NULL

handler_p002b(req, h) ==
    IF preflight(req) # 0 THEN Reply(preflight(req), h)
    ELSE IF ~req.env.STRIPE_SECRET_KEY THEN Reply(500, h)
    ELSE LET plan == orDefault(req.body.plan, "aibe_pif")
             inline == req.env.USE_INLINE_PRICE_DATA
             cfg == INLINE(plan)
             price == priceMap(req.env, plan)
             payment == modeOf(plan) = "payment"
             p == [withModeData(baseParams(plan, price))
                     EXCEPT !.line_items = IF inline THEN <<InlineItem(cfg)>>
                                           ELSE <<LineItem(price)>>,
                            !.return_total = NULL,
                            !.customer_creation = IF payment THEN "always" ELSE NULL,
                            !.invoice_creation = payment]
         IN IF inline /\ cfg = NULL THEN Reply(400, h)
            ELSE IF ~inline /\ ~Truthy(price) THEN Reply(400, h)
            ELSE finish(h, p)

(***************************************************************************)
(* Session Initiator, src/unnamed/part_002 lines 320-439                   *)
(***************************************************************************)
\* totalMap[plan]
totalMap(plan) ==
    CASE plan \in {"one_time", "aibe_pif"}    -> "499"
      [] plan \in {"split_2", "aibe_split_2"} -> "515"
      [] plan \in {"split_3", "aibe_split_3"} -> "525"
      [] plan \in ObjectPrototype             -> Function
      [] OTHER                                -> NULL

handler_p002c(req, h) ==
    IF preflight(req) # 0 THEN Reply(preflight(req), h)
    ELSE IF ~req.env.STRIPE_SECRET_KEY THEN Reply(500, h)
    ELSE LET plan == orDefault(req.body.plan, "one_time")
             email == orDefault(req.body.email, EMPTY)
             name == orDefault(req.body.name, EMPTY)
             price == priceMap(req.env, plan)
             h0 == customersList(h, email)
             i == Found(h0.customers, email)
             h1 == IF ~Truthy(email) THEN h
                   ELSE IF h0.failed THEN h0
                   ELSE IF i # 0
                   THEN LET h2 == [h0 EXCEPT !.customerId = BuyerIds[i]]
                        IN IF Truthy(name) /\ ~Truthy(h0.customers[i].name)
                           THEN customersUpdateName(h2, i, name)
                           ELSE h2
                   ELSE customersCreate(h0, [email |-> email, name |-> name], TRUE)
             p == [withCustomer(baseParams(plan, price), h1.customerId, email)
                     EXCEPT !.customer_update = TRUE, !.invoice_creation = TRUE,
                            !.custom_fields = <<>>, !.return_total = totalMap(plan)]
         IN IF ~Truthy(price) THEN Reply(400, h) ELSE finish(h1, p)

(***************************************************************************)
(* Session Initiator, src/unnamed/part_003 lines 1-90                      *)
(***************************************************************************)
\* a handler that prefills the checkout with the email of the body
handler_p003a_prefilling(req, h) ==
    IF preflight(req) # 0 THEN Reply(preflight(req), h)
    ELSE IF ~req.env.STRIPE_SECRET_KEY THEN Reply(500, h)
    ELSE LET plan == orDefault(req.body.plan, "one_time")
             price == priceMap(req.env, plan)
             p == [withModeData(withCustomer(baseParams(plan, price), NULL, req.body.email))
                     EXCEPT !.invoice_creation = (modeOf(plan) = "payment")]
         IN IF ~Truthy(price) THEN Reply(400, h) ELSE finish(h, p)

handler_p003a(req, h) ==
    IF preflight(req) # 0 THEN Reply(preflight(req), h)
    ELSE IF ~req.env.STRIPE_SECRET_KEY THEN Reply(500, h)
    ELSE LET plan == orDefault(req.body.plan, "one_time")
             price == priceMap(req.env, plan)
             p == [withModeData(baseParams(plan, price))
                     EXCEPT !.invoice_creation = (modeOf(plan) = "payment")]
         IN IF ~Truthy(price) THEN Reply(400, h) ELSE finish(h, p)

(***************************************************************************)
(* Session Initiator, src/unnamed/part_003 lines 92-238                    *)
(***************************************************************************)
\* process.env.PRICE_* || "<the value written in the source>"
priceMap_p003b(env, plan) ==
    priceMap([env EXCEPT !.PRICE_ONE_TIME = OrElse(@, "price_1SEoGeGB35pnerjHSWvzb2Ws"),
                         !.PRICE_SPLIT_2 = OrElse(@, "test_aibe_split_2"),
                         !.PRICE_SPLIT_3 = OrElse(@, "test_aibe_split_3")], plan)

\* lines 156-166: the session requested for an installment plan
subscriptionParams(plan, price, customerId) ==
    [NoSessionParams EXCEPT !.mode = "setup", !.customer = customerId,
                            !.return_plan = plan, !.custom_fields = TwoCustomFields]

\* lines 210-214: look the promotion code up, pin it as a discount if it exists
withPromotion(h, p, promotionCode) ==
    IF promotionCode = NULL THEN [h |-> h, p |-> p]
    ELSE LET h1 == promotionCodesList(h, promotionCode)
         IN [h |-> h1,
             p |-> IF PromotionCodeId(promotionCode) # NULL
                   THEN [p EXCEPT !.discounts = PromotionCodeId(promotionCode)]
                   ELSE p]

handler_p003b(req, h) ==
    IF preflight(req) # 0 THEN Reply(preflight(req), h)
    ELSE LET plan == trim(OrElse(req.body.plan, "one_time"))
             promotionCode == trimOrNull(req.body.promotionCode)
             price == priceMap_p003b(req.env, plan)
             h1 == customersCreate(h, [email |-> NULL, name |-> NULL], FALSE)
             pay == [baseParams(plan, price)
                       EXCEPT !.mode = "payment", !.allow_promotion_codes = TRUE,
                              !.invoice_creation = TRUE, !.payment_intent_data = TRUE,
                              !.customer_creation = "always"]
             w == withPromotion(h, pay, promotionCode)
         IN IF ~Truthy(price) THEN Reply(400, h)
            ELSE IF isSub(plan)
            THEN finish(h1, subscriptionParams(plan, price, h1.customerId))
            ELSE finish(w.h, w.p)

(***************************************************************************)
(* Session Initiator, src/unnamed/part_004                                 *)
(***************************************************************************)
handler_p004(req, h) ==
    IF preflight(req) # 0 THEN Reply(preflight(req), h)
    ELSE IF ~req.env.STRIPE_SECRET_KEY THEN Reply(500, h)
    ELSE LET plan == orDefault(req.body.plan, "one_time")
             email == orDefault(req.body.email, EMPTY)
             price == priceMap(req.env, plan)
             payment == modeOf(plan) = "payment"
             p == [withModeData(baseParams(plan, price))
                     EXCEPT !.customer_email = OrElse(email, EMPTY),
                            !.customer_creation = IF payment THEN "always" ELSE NULL,
                            !.invoice_creation = payment]
         IN IF ~Truthy(price) THEN Reply(400, h) ELSE finish(h, p)

(***************************************************************************)
(* Session Initiator, src/unnamed/part_005 lines 1-122                     *)
(***************************************************************************)
handler_p005a(req, h) ==
    IF preflight(req) # 0 THEN Reply(preflight(req), h)
    ELSE IF ~req.env.STRIPE_SECRET_KEY THEN Reply(500, h)
    ELSE LET plan == trim(OrElse(req.body.plan, "one_time"))
             companyName == trimOrNull(req.body.companyName)
             taxNumber == trimOrNull(req.body.taxNumber)
             promotionCode == trimOrNull(req.body.promotionCode)
             price == priceMap(req.env, plan)
             h1 == IF companyName # NULL \/ taxNumber # NULL
                   THEN customersCreate(h, [email |-> NULL, name |-> NULL], FALSE)
                   ELSE h
             p == [withModeData(baseParams(plan, price))
                     EXCEPT !.allow_promotion_codes = TRUE, !.customer = h1.customerId]
             w == withPromotion(h1, p, promotionCode)
         IN IF ~Truthy(price) THEN Reply(400, h) ELSE finish(w.h, w.p)

(***************************************************************************)
(* Session Initiator, src/unnamed/part_005 lines 124-248                   *)
(***************************************************************************)
handler_p005b(req, h) ==
    IF preflight(req) # 0 THEN Reply(preflight(req), h)
    ELSE IF ~req.env.STRIPE_SECRET_KEY THEN Reply(500, h)
    ELSE LET plan == orDefault(req.body.plan, "one_time")
             email == orDefault(req.body.email, EMPTY)
             name == orDefault(req.body.name, EMPTY)
             price == priceMap(req.env, plan)
             h1 == findOrCreateCustomer(h, email, name)
             p == [withModeData(withCustomer(baseParams(plan, price), h1.customerId, email))
                     EXCEPT !.customer_update = TRUE]
         IN IF ~Truthy(price) THEN Reply(400, h) ELSE finish(h1, p)

(***************************************************************************)
(* The deployed Session Initiator                                          *)
(***************************************************************************)
FrontRevisions == {"cs1", "cs2", "cf", "p000", "p001a", "p001b", "p002a", "p002b",
                   "p002c", "p003a", "p003b", "p004", "p005a", "p005b"}

\* the cross-origin headers of a response: part_003 lines 91-213 and part_005
\* lines 1-122 keep the allow-list in a Set and add Vary
frontCors(rv, req) == setCorsHeaders(ALLOWED, req.origin, rv \in {"p003b", "p005a"})

\* the secret key the revision builds its client with: p003b falls back to a key
\* written in the source
frontAuth(rv, req) == rv = "p003b" \/ req.env.STRIPE_SECRET_KEY

frontHandler(rv, req, h) ==
    CASE rv = "cs1"   -> handler_cs1(req, h)
      [] rv = "cs2"   -> handler_cs2(req, h)
      [] rv = "cf"    -> handler_cf(req, h)
      [] rv = "p000"  -> handler_p000(req, h)
      [] rv = "p001a" -> handler_p001a(req, h)
      [] rv = "p001b" -> handler_p001b(req, h)
      [] rv = "p002a" -> handler_p002a(req, h)
      [] rv = "p002b" -> handler_p002b(req, h)
      [] rv = "p002c" -> handler_p002c(req, h)
      [] rv = "p003a" -> handler_p003a(req, h)
      [] rv = "p003b" -> handler_p003b(req, h)
      [] rv = "p004"  -> handler_p004(req, h)
      [] rv = "p005a" -> handler_p005a(req, h)
      [] OTHER        -> handler_p005b(req, h)

\* no request has been made yet
NoRequest ==
    [method |-> "POST", env |-> FrontEnvOk, body |-> Body(NULL, NULL, NULL, NULL, NULL),
     failAt |-> 0, status |-> 0, calls |-> <<>>, created |-> {}, before |-> <<>>,
     origin |-> NULL, headers |-> NoHeaders]

\* no Session Initiator is deployed
FrontIdle ==
    /\ front = "none"
    /\ customers = <<>>
    /\ emptyRefused = FALSE
    /\ asked = NoRequest

(***************************************************************************)
(* Confirmation Poller, src/unnamed/part_012                               *)
(***************************************************************************)
PollEnvs == {[STRIPE_SECRET_KEY |-> TRUE], [STRIPE_SECRET_KEY |-> FALSE]}

\* the JSON body: session_id and whatever else the client puts in
PollBody(session_id, status, payment_status) ==
    [session_id |-> session_id, status |-> status, payment_status |-> payment_status]

PollRequest(method, env, body, failAt) ==
    [method |-> method, env |-> env, body |-> body, failAt |-> failAt,
     origin |-> Storefront]

PollContext(req) ==
    [session |-> checkout, calls |-> <<>>, sent |-> <<>>, failed |-> FALSE,
     failAt |-> req.failAt, auth |-> req.env.STRIPE_SECRET_KEY, got |-> NULL]

PollReply(status, json, h) == [status |-> status, json |-> json, h |-> h]

\* checkout.sessions.retrieve(session_id, { expand }): fails in transit, is refused
\* without a valid key or for an id the provider does not know, else yields the session
sessionsRetrieve_expanded(h, id) ==
    LET o == IF h.failAt = Len(h.calls) + 1 THEN "fault"
             ELSE IF ~h.auth \/ id # h.session.id THEN "rejected"
             ELSE "ok"
    IN [h EXCEPT !.calls = Append(@, [op |-> "checkout.sessions.retrieve", id |-> id,
                                      outcome |-> o]),
                 !.failed = Threw(o),
                 !.got = IF o = "ok" THEN h.session ELSE NULL]

\* an answer that is not the session: { ok: true } or { error }
NoSummary ==
    [id |-> NULL, mode |-> NULL, status |-> NULL, payment_status |-> NULL,
     currency |-> NULL, amount_total |-> 0, customer_id |-> NULL]

\* a summary that calls every complete session paid
summary_paidWhenComplete(s) ==
    [id |-> s.id, mode |-> s.mode, status |-> s.status,
     payment_status |-> IF s.status = "complete" THEN "paid" ELSE s.payment_status,
     currency |-> s.currency, amount_total |-> s.amount_total,
     customer_id |-> OrElse(s.customer, NULL)]

\* lines 29-46: the fields of the session that are handed back
summary(s) ==
    [id |-> s.id, mode |-> s.mode, status |-> s.status,
     payment_status |-> s.payment_status,
     currency |-> s.currency, amount_total |-> s.amount_total,
     customer_id |-> OrElse(s.customer, NULL)]

\* lines 4-13: the cross-origin headers of every response
cors_p012(req) == setCorsHeaders(ALLOWED, req.origin, TRUE)

\* a poller that takes the status fields from the body when the client sends them
handler_p012_trusting(req, h) ==
    IF preflight(req) # 0 THEN PollReply(preflight(req), NoSummary, h)
    ELSE IF ~req.env.STRIPE_SECRET_KEY THEN PollReply(500, NoSummary, h)
    ELSE IF ~Truthy(req.body.session_id) THEN PollReply(400, NoSummary, h)
    ELSE LET h1 == sessionsRetrieve_expanded(h, req.body.session_id)
         IN IF h1.failed THEN PollReply(500, NoSummary, h1)
            ELSE PollReply(200, [summary(h1.got) EXCEPT
                                   !.status = orDefault(req.body.status, @),
                                   !.payment_status = orDefault(req.body.payment_status, @)],
                           h1)

handler_p012(req, h) ==
    IF preflight(req) # 0 THEN PollReply(preflight(req), NoSummary, h)
    ELSE IF ~req.env.STRIPE_SECRET_KEY THEN PollReply(500, NoSummary, h)
    ELSE IF ~Truthy(req.body.session_id) THEN PollReply(400, NoSummary, h)
    ELSE LET h1 == sessionsRetrieve_expanded(h, req.body.session_id)
         IN IF h1.failed THEN PollReply(500, NoSummary, h1)
            ELSE PollReply(200, summary(h1.got), h1)

NoPoll ==
    [method |-> "POST", env |-> [STRIPE_SECRET_KEY |-> TRUE],
     body |-> PollBody(NULL, NULL, NULL), failAt |-> 0, status |-> 0, json |-> NoSummary,
     calls |-> <<>>, sent |-> <<>>, before |-> NULL,
     origin |-> NULL, headers |-> NoHeaders]

\* the Checkout Session as the provider creates it
OpenSession(mode) ==
    [id |-> SessionId, mode |-> mode, status |-> "open", payment_status |-> "unpaid",
     currency |-> "eur", amount_total |-> IF mode = "payment" THEN 49900 ELSE 17500,
     customer |-> NULL]

\* no Confirmation Poller is deployed
PollIdle ==
    /\ checkout = OpenSession("payment")
    /\ outbox = <<>>
    /\ polled = NoPoll

(***************************************************************************)
(* Relay handler, src/api/track.js lines 1-29 and src/unnamed/part_005     *)
(* lines 250-278                                                           *)
(***************************************************************************)
RelayRevisions == {"track", "p005c"}

\* wellFormed: the body parses as JSON; downstream: what the fetch meets
RelayRequest(method, origin, url, wellFormed, downstream) ==
    [method |-> method, origin |-> origin, env |-> [WEBHOOK_URL |-> url],
     wellFormed |-> wellFormed, downstream |-> downstream]

\* sent: the outbound requests made; forwarded: the status handed back as json.status
RelayReply(status, sent, forwarded) ==
    [status |-> status, sent |-> sent, forwarded |-> forwarded]

DownstreamStatus(d) == IF d = "accepted" THEN 200 ELSE 500

relayHandler(req) ==
    IF preflight(req) # 0 THEN RelayReply(preflight(req), 0, NULL)
    ELSE IF ~req.env.WEBHOOK_URL THEN RelayReply(500, 0, NULL)
    ELSE IF ~req.wellFormed THEN RelayReply(500, 0, NULL)
    ELSE IF req.downstream = "unreachable" THEN RelayReply(500, 1, NULL)
    ELSE RelayReply(200, 1, DownstreamStatus(req.downstream))

relayCors(rv, req) ==
    setCorsHeaders(IF rv = "track" THEN ALLOWED_track ELSE ALLOWED_p005c,
                   req.origin, FALSE)

NoRelay ==
    [method |-> "POST", origin |-> NULL, env |-> [WEBHOOK_URL |-> TRUE],
     wellFormed |-> TRUE, downstream |-> "accepted", status |-> 0, sent |-> 0,
     forwarded |-> NULL, headers |-> NoHeaders]

\* no relay handler is deployed
RelayIdle ==
    /\ relay = "none"
    /\ relayed = NoRelay

(***************************************************************************)
(* Initial states                                                          *)
(***************************************************************************)
\* The checkout's two custom fields, both filled in.
TheSpecForm ==
    <<FormField("company_name", "Acme GmbH"), FormField("company_tax_number", "DE123456789")>>

\* What the buyer typed into the checkout's custom fields (text.value is NULL
\* for an optional field left empty).
CompanyOnlyForm ==
    <<FormField("company_name", "Acme GmbH"), FormField("company_tax_number", NULL)>>

\* forms of earlier revisions of the checkout: other keys, untrimmed text
LegacyForms ==
    { <<FormField("company_name", " Acme GmbH "), FormField("tax_number", "DE123456789")>>,
      <<FormField("Firmenname", "Acme GmbH"), FormField("VAT", "  ")>> }

\* The session's links: no customer; a customer only; a one-time payment with
\* an invoice; a subscription with its first invoice; a subscription whose
\* invoice is reachable only through subscription.latest_invoice.
NoLinks == [customer |-> NULL, invoice |-> NULL, latest_invoice |-> NULL]
CustomerOnly == [customer |-> CustomerId, invoice |-> NULL, latest_invoice |-> NULL]
OneTime == [customer |-> CustomerId, invoice |-> "in_1", latest_invoice |-> NULL]
Subscription == [customer |-> CustomerId, invoice |-> "in_1", latest_invoice |-> "in_1"]
SubscriptionPending == [customer |-> CustomerId, invoice |-> NULL, latest_invoice |-> "in_1"]

\* Invoice defaults the customer may hold from an earlier checkout of the same
\* buyer or from the merchant's dashboard.
InitialCustomFields ==
    { <<>>,
      <<Field("Company", "Old Co"), Field("Tax ID", "ATU999")>>,
      <<Field("PO", "PO-42"), Field("Company", "Old Co"), Field("VAT", "ATU999")>> }

InitialNames == {NULL, "Max Mustermann"}

\* an invoice as the provider creates it for the customer: draft, carrying the
\* customer's name and invoice defaults
NewInvoice(i, c, autoAdvance) ==
    [id |-> i, status |-> "draft", custom_fields |-> c.custom_fields,
     customer_name |-> c.name, auto_advance |-> autoAdvance, metadata |-> NoInvMeta,
     customer |-> CustomerId]

NoDelivery ==
    [body |-> NULL, kind |-> "valid", method |-> "POST", env |-> EnvOk, status |-> 0,
     verified |-> FALSE, calls |-> <<>>, custBefore |-> NULL,
     clean |-> FALSE, repeat |-> FALSE]

\* the deliveries the provider may have under way at once
Slots == {1, 2}

\* no delivery is being handled in the slot
NoFlight == [busy |-> FALSE, body |-> NULL, log |-> <<>>]

HookInit(revs, forms, shapes, fields, names, advances, stashes) ==
    /\ rev \in revs
    /\ legacyApi \in (IF rev = "sw1" THEN BOOLEAN ELSE {FALSE})
    /\ \E f \in forms, sh \in shapes :
          session = [custom_fields |-> f, customer |-> sh.customer,
                     invoice |-> sh.invoice, latest_invoice |-> sh.latest_invoice,
                     customer_details_name |-> "Max Mustermann"]
    /\ \E cf \in fields, n \in names, st \in stashes :
          customer = [name |-> n,
                      metadata |-> [NoMeta EXCEPT
                                      !["crm_id"] = "crm-7",
                                      !["company_name_from_checkout"] = st],
                      custom_fields |-> cf, tax_ids |-> <<>>]
    /\ \E a \in advances :
          invoices = [i \in InvoiceIds |->
                        IF i = "in_1" THEN NewInvoice(i, customer, a)
                        ELSE [NoInvoice EXCEPT !.id = i]]
    /\ emitted = {"evt_cs", "evt_ic1", "evt_cu"}
    /\ snap = [e \in EventIds |-> IF e = "evt_ic1" THEN invoices["in_1"] ELSE NoInvoice]
    /\ idem = {}
    /\ issued = {}
    /\ last = NoDelivery
    /\ flights = [k \in Slots |-> NoFlight]
    /\ handled = <<>>

\* the Event Receiver alone: no Session Initiator, no Confirmation Poller deployed
InitWith(revs, forms, shapes, fields, names, advances, stashes) ==
    /\ HookInit(revs, forms, shapes, fields, names, advances, stashes)
    /\ uniqueTaxIds = TRUE
    /\ FrontIdle
    /\ PollIdle
    /\ RelayIdle

Init_sw1 ==
    InitWith({"sw1"}, {<<>>, TheSpecForm} \cup LegacyForms,
             {NoLinks, CustomerOnly, OneTime, SubscriptionPending},
             InitialCustomFields, InitialNames, {TRUE}, {NULL})

(***************************************************************************)
(* Actions                                                                 *)
(***************************************************************************)
Clean(r) == r.verified /\ \A i \in 1..Len(r.h.calls) : ~Threw(r.h.calls[i].outcome)

\* One webhook request, handled from start to response.
Deliver(req, r) ==
    /\ customer' = r.h.cust
    /\ invoices' = r.h.inv
    /\ idem' = r.h.idem
    /\ snap' = r.h.snap
    /\ emitted' = r.h.emitted
    /\ issued' = issued \cup
          { [op |-> r.h.calls[i].op, id |-> r.h.calls[i].id, event |-> req.body,
             key |-> r.h.calls[i].key] :
            i \in {j \in 1..Len(r.h.calls) : r.h.calls[j].key # NULL} }
    /\ last' = [body |-> req.body, kind |-> req.kind, method |-> req.method,
                env |-> req.env, status |-> r.status, verified |-> r.verified,
                calls |-> r.h.calls, custBefore |-> customer,
                clean |-> Clean(r),
                repeat |-> last.body = req.body /\ last.clean /\ r.verified]
    /\ UNCHANGED <<rev, legacyApi, session, uniqueTaxIds, flights, handled,
                 frontVars, pollVars, relayVars>>

\* The provider delivers an event it has generated to the deployed revision.
Webhook ==
    \E e \in emitted : \E req \in Deliveries(e) :
       Deliver(req, handler(rev, req, Context(req)))

\* Any other request reaches the endpoint.
Stranger ==
    \E e \in emitted : \E req \in Requests(e) \ Deliveries(e) :
       Deliver(req, handler(rev, req, Context(req)))

\* The provider finalizes a draft invoice it is allowed to advance.
ProviderFinalize(i) ==
    /\ invoices[i].status = "draft"
    /\ invoices[i].auto_advance
    /\ invoices' = [invoices EXCEPT ![i].status = "open"]
    /\ emitted' = emitted \cup {FinalizedEvent(i)}
    /\ snap' = [snap EXCEPT ![FinalizedEvent(i)] = invoices'[i]]
    /\ last' = NoDelivery
    /\ UNCHANGED <<rev, legacyApi, session, customer, idem, issued, uniqueTaxIds,
                 flights, handled, frontVars, pollVars, relayVars>>

\* The provider collects, voids or writes off an open invoice.
ProviderSettle(i, st) ==
    /\ invoices[i].status = "open"
    /\ invoices' = [invoices EXCEPT ![i].status = st]
    /\ emitted' = IF st = "paid" THEN emitted \cup {PaidEvent(i)} ELSE emitted
    /\ snap' = IF st = "paid" THEN [snap EXCEPT ![PaidEvent(i)] = invoices'[i]] ELSE snap
    /\ last' = NoDelivery
    /\ UNCHANGED <<rev, legacyApi, session, customer, idem, issued, uniqueTaxIds,
                 flights, handled, frontVars, pollVars, relayVars>>

\* The provider opens the invoice of the next billing cycle.
ProviderCreateInvoice ==
    /\ invoices["in_1"].status = "paid"
    /\ invoices["in_2"].status = "none"
    /\ session.latest_invoice # NULL
    /\ invoices' = [invoices EXCEPT !["in_2"] = NewInvoice("in_2", customer, TRUE)]
    /\ emitted' = emitted \cup {CreatedEvent("in_2")}
    /\ snap' = [snap EXCEPT ![CreatedEvent("in_2")] = invoices'["in_2"]]
    /\ last' = NoDelivery
    /\ UNCHANGED <<rev, legacyApi, session, customer, idem, issued, uniqueTaxIds,
                 flights, handled, frontVars, pollVars, relayVars>>

Provider ==
    \/ \E i \in InvoiceIds : ProviderFinalize(i)
    \/ \E i \in InvoiceIds : \E st \in {"paid", "void", "uncollectible"} : ProviderSettle(i, st)

\* The Event Receiver of src/api/stripe-webhook.js lines 1-216 against the provider.
Next_sw1 == Webhook \/ Provider

Spec_sw1 == Init_sw1 /\ [][Next_sw1]_vars

\* The revisions that key their calls (part_007 lines 286-469, part_010), with the
\* invoices of a subscription: the customer may carry a company name stashed by an
\* earlier checkout, the invoice may have been created with auto_advance off.
Init_keyed ==
    InitWith({"p007c", "p010"}, {<<>>, TheSpecForm},
             {CustomerOnly, Subscription, SubscriptionPending},
             {<<>>}, {"Max Mustermann"}, BOOLEAN, {NULL, "Acme GmbH"})

Next_keyed == Webhook \/ Provider \/ ProviderCreateInvoice

Spec_keyed == Init_keyed /\ [][Next_keyed]_vars

\* event e has just been delivered, no call failing
DeliveredClean(e) == last.body = e /\ last.clean

\* The same, under the provider's schedule: an invoice the provider may advance
\* or collect does not wait forever, and every event it has generated is
\* delivered, with no call failing, again and again (more than the provider
\* promises: it delivers until it is answered 2xx). Whether a further billing
\* cycle comes is left open.
Spec_keyed_fair ==
    /\ Spec_keyed
    /\ WF_vars(Provider)
    /\ \A e \in EventIds : []<>(e \notin emitted \/ DeliveredClean(e))

\* The revisions that write the customer's invoice defaults from the session alone
\* (track.js lines 31-132, part_009, part_011).
Init_merge ==
    InitWith({"track", "p009", "p011"}, {<<>>, TheSpecForm, CompanyOnlyForm} \cup LegacyForms,
             {NoLinks, CustomerOnly, OneTime},
             InitialCustomFields, {"Max Mustermann"}, {TRUE}, {NULL})

Next_merge == Webhook \/ Provider

Spec_merge == Init_merge /\ [][Next_merge]_vars

\* Every revision, facing every request.
Init_all ==
    InitWith(Revisions, {TheSpecForm}, {CustomerOnly, OneTime}, {<<>>},
             {"Max Mustermann"}, {TRUE}, {NULL})

Next_all == Webhook \/ Stranger \/ Provider

Spec_all == Init_all /\ [][Next_all]_vars

(***************************************************************************)
(* Deliveries handled concurrently: each provider call of a handling is a  *)
(* step of its own, other handlings take their steps in between            *)
(***************************************************************************)
\* the provider's delivery of the event in flight
FlightRequest(f) == Request(f.body, "valid", "POST", EnvOk, 0)

StepContext(req, log) == [Context(req) EXCEPT !.live = TRUE, !.log = log]

\* the deliveries started so far
Started == Len(handled) + Cardinality({k \in Slots : flights[k].busy})

\* The provider starts delivering event e while at most one other delivery is
\* being handled.
Arrive(k, e) ==
    /\ e \in emitted
    /\ Started < MaxFlights
    /\ ~flights[k].busy
    /\ k = 1 \/ flights[1].busy
    /\ flights' = [flights EXCEPT ![k] = [busy |-> TRUE, body |-> e, log |-> <<>>]]
    /\ UNCHANGED <<rev, legacyApi, session, customer, invoices, emitted, snap, idem,
                   issued, last, uniqueTaxIds, handled, frontVars, pollVars, relayVars>>

\* One step of the handling in slot k: r is what running it up to its next
\* provider call, or to its response, amounts to.
Step(k, req, r) ==
    /\ IF r.h.halted
       THEN /\ customer' = r.h.now.cust
            /\ invoices' = r.h.now.inv
            /\ idem' = r.h.idem
            /\ snap' = r.h.snap
            /\ emitted' = r.h.emitted
            /\ issued' = issued \cup
                  { [op |-> r.h.calls[i].op, id |-> r.h.calls[i].id, event |-> req.body,
                     key |-> r.h.calls[i].key] :
                    i \in {j \in 1..Len(r.h.calls) : r.h.calls[j].key # NULL} }
            /\ flights' = [flights EXCEPT ![k].log = r.h.log]
            /\ UNCHANGED <<last, handled>>
       ELSE /\ flights' = [flights EXCEPT ![k] = NoFlight]
            /\ handled' = Append(handled, req.body)
            /\ last' = [body |-> req.body, kind |-> req.kind, method |-> req.method,
                        env |-> req.env, status |-> r.status, verified |-> r.verified,
                        calls |-> r.h.calls, custBefore |-> customer,
                        clean |-> Clean(r),
                        repeat |-> last.body = req.body /\ last.clean /\ r.verified]
            /\ UNCHANGED <<customer, invoices, idem, snap, emitted, issued>>
    /\ UNCHANGED <<rev, legacyApi, session, uniqueTaxIds, frontVars, pollVars, relayVars>>

\* The handling in slot k goes on to its next provider call, or to its response.
Advance(k) ==
    /\ flights[k].busy
    /\ \E req \in {FlightRequest(flights[k])} :
          Step(k, req, handler(rev, req, StepContext(req, flights[k].log)))

Concurrent ==
    \/ \E k \in Slots : \E e \in emitted : Arrive(k, e)
    \/ \E k \in Slots : Advance(k)

\* The revisions of part_006 lines 179-366, part_007 lines 286-469 and part_010,
\* two deliveries at a time. The checkout carries the Billing Supplement or
\* nothing, its invoice is linked to the session or not. For part_006 the
\* provider finalizes the invoice when it likes (which generates
\* invoice.finalized); for the two others the invoice was created with
\* auto_advance off and only the receiver finalizes it.
Init_race ==
    /\ \/ /\ HookInit({"p006b"}, {TheSpecForm}, {CustomerOnly, OneTime},
                       {<<>>}, {"Max Mustermann"}, {TRUE}, {NULL})
          /\ uniqueTaxIds \in BOOLEAN
       \/ /\ HookInit({"p007c", "p010"}, {<<>>, TheSpecForm}, {CustomerOnly, OneTime},
                       {<<>>}, {"Max Mustermann"}, {FALSE}, {NULL})
          /\ uniqueTaxIds = TRUE
    /\ FrontIdle
    /\ PollIdle
    /\ RelayIdle

Next_race == Concurrent \/ \E i \in InvoiceIds : ProviderFinalize(i)

Spec_race == Init_race /\ [][Next_race]_vars

\* The revision of stripe-webhook.js lines 1-216, two deliveries at a time: the
\* checkout carries the form of today or an earlier one, the customer any of the
\* invoice defaults.
InitialCustomer(cf) ==
    [name |-> "Max Mustermann", metadata |-> [NoMeta EXCEPT !["crm_id"] = "crm-7"],
     custom_fields |-> cf, tax_ids |-> <<>>]

Init_twice ==
    /\ HookInit({"sw1"}, {TheSpecForm} \cup LegacyForms,
                {CustomerOnly, OneTime}, InitialCustomFields, {"Max Mustermann"},
                {TRUE}, {NULL})
    /\ uniqueTaxIds = TRUE
    /\ FrontIdle
    /\ PollIdle
    /\ RelayIdle

\* the provider leaves the invoice alone meanwhile
Next_twice == Concurrent

Spec_twice == Init_twice /\ [][Next_twice]_vars

(***************************************************************************)
(* The Session Initiator against the provider                              *)
(***************************************************************************)
\* no Event Receiver is deployed: the provider has nothing to deliver
HookIdle ==
    /\ rev = "none"
    /\ legacyApi = FALSE
    /\ session = [custom_fields |-> <<>>, customer |-> NoLinks.customer,
                  invoice |-> NoLinks.invoice, latest_invoice |-> NoLinks.latest_invoice,
                  customer_details_name |-> "Max Mustermann"]
    /\ customer = [name |-> NULL, metadata |-> NoMeta, custom_fields |-> <<>>,
                   tax_ids |-> <<>>]
    /\ invoices = [i \in InvoiceIds |-> [NoInvoice EXCEPT !.id = i]]
    /\ emitted = {}
    /\ snap = [e \in EventIds |-> NoInvoice]
    /\ idem = {}
    /\ issued = {}
    /\ last = NoDelivery
    /\ uniqueTaxIds = TRUE
    /\ flights = [k \in Slots |-> NoFlight]
    /\ handled = <<>>

\* Customers the provider holds before the first request
InitialBuyers ==
    {<<>>,
     <<[email |-> "a@x.io", name |-> NULL]>>,
     <<[email |-> "a@x.io", name |-> "Ann"]>>,
     <<[email |-> "b@x.io", name |-> NULL]>>,
     <<[email |-> "a@x.io", name |-> "Ann"], [email |-> "b@x.io", name |-> "Bob"]>>}

FrontInit(revs) ==
    /\ HookIdle
    /\ PollIdle
    /\ RelayIdle
    /\ front \in revs
    /\ customers \in InitialBuyers
    /\ emptyRefused \in BOOLEAN
    /\ asked = NoRequest

\* One request to the Session Initiator, handled from start to response.
Ask(req, r) ==
    /\ front # "none"
    /\ Len(customers) < MaxBuyers
    /\ customers' = r.h.customers
    /\ asked' = [method |-> req.method, env |-> req.env, body |-> req.body,
                 failAt |-> req.failAt, status |-> r.status, calls |-> r.h.calls,
                 created |-> r.h.created, before |-> customers,
                 origin |-> req.origin, headers |-> frontCors(front, req)]
    /\ UNCHANGED <<front, emptyRefused, hookVars, pollVars, relayVars>>

Emails == {NULL, "a@x.io"}
Names == {NULL, "Ann"}
Faulty == {"one_time", "split_3"}        \* the plans asked for while a call fails
Supplements == {<<" Acme GmbH ", NULL>>, <<NULL, "AIBE-100TEST">>, <<NULL, "NOPE">>}
MaxFrontFailAt == 3

\* the revisions that read companyName / taxNumber / promotionCode from the body
ReadsSupplement(rv) == rv \in {"p003b", "p005a"}

\* the requests the checkout page sends: a supported plan, a configured server
Orders(rv) ==
    {FrontRequest("POST", FrontEnvOk, Body(pl, e, n, NULL, NULL), 0) :
       pl \in SupportedPlans, e \in Emails, n \in Names}
    \cup {FrontRequest("POST", FrontEnvOk, Body(pl, "a@x.io", n, NULL, NULL), k) :
            pl \in Faulty, n \in Names, k \in 1..MaxFrontFailAt}
    \cup IF ReadsSupplement(rv)
         THEN {FrontRequest("POST", FrontEnvOk, Body(pl, NULL, NULL, x[1], x[2]), k) :
                 pl \in Faulty, x \in Supplements, k \in 0..MaxFrontFailAt}
         ELSE {}

OtherPlans == {NULL, EMPTY, "gold", "constructor", "toString"}

\* every other request: other plans, other methods, an incomplete environment
OtherRequests ==
    {FrontRequest("POST", FrontEnvOk, Body(pl, e, NULL, NULL, NULL), 0) :
       pl \in OtherPlans, e \in Emails}
    \cup {FrontRequest(m, FrontEnvOk, Body("one_time", NULL, NULL, NULL, NULL), 0) :
            m \in {"GET", "OPTIONS"}}
    \cup {FrontRequest("POST", env, Body(pl, "a@x.io", NULL, NULL, NULL), 0) :
            env \in FrontEnvs \ {FrontEnvOk}, pl \in {"one_time", "split_3", "gold"}}

\* The checkout page asks for a session.
Checkout ==
    \E req \in Orders(front) :
       Ask(req, frontHandler(front, req, FrontContext(req, frontAuth(front, req))))

\* Any other request reaches the endpoint.
Visitor ==
    \E req \in OtherRequests :
       Ask(req, frontHandler(front, req, FrontContext(req, frontAuth(front, req))))

Next_front == Checkout \/ Visitor

\* The Session Initiator of src/api/checkout-session.js, both revisions.
Init_checkout == FrontInit({"cs1", "cs2"})

Spec_checkout == Init_checkout /\ [][Next_front]_vars

\* Every revision of the Session Initiator.
Init_front ==
    /\ FrontInit(FrontRevisions)
    /\ Len(customers) = 0 \/ customers[1].name = NULL

Spec_front == Init_front /\ [][Next_front]_vars

\* Every revision of the Event Receiver and of the Session Initiator, facing every
\* request, a missing secret included.
Init_secrets ==
    \/ InitWith(Revisions, {TheSpecForm}, {CustomerOnly}, {<<>>},
                {"Max Mustermann"}, {TRUE}, {NULL})
    \/ /\ FrontInit(FrontRevisions)
       /\ customers = <<>>
       /\ ~emptyRefused

Next_secrets == Next_all \/ Next_front

Spec_secrets == Init_secrets /\ [][Next_secrets]_vars

(***************************************************************************)
(* Requests to the Session Initiator handled concurrently: each provider   *)
(* call of a request is a step of its own                                  *)
(***************************************************************************)
FrontStepContext(req, log) ==
    [FrontContext(req, frontAuth(front, req)) EXCEPT !.live = TRUE, !.log = log]

\* A request reaches the Session Initiator while at most one other is handled.
FrontArrive(k, req) ==
    /\ front # "none"
    /\ Len(customers) < MaxBuyers
    /\ Started < MaxFlights
    /\ ~flights[k].busy
    /\ k = 1 \/ flights[1].busy
    /\ flights' = [flights EXCEPT ![k] = [busy |-> TRUE, body |-> req, log |-> <<>>]]
    /\ UNCHANGED <<rev, legacyApi, session, customer, invoices, emitted, snap, idem,
                   issued, last, uniqueTaxIds, handled, frontVars, pollVars, relayVars>>

\* One step of the request in slot k: r is what running it up to its next
\* provider call, or to its response, amounts to.
FrontStep(k, req, r) ==
    /\ IF r.h.halted
       THEN /\ customers' = r.h.now
            /\ flights' = [flights EXCEPT ![k].log = r.h.log]
            /\ UNCHANGED <<asked, handled>>
       ELSE /\ flights' = [flights EXCEPT ![k] = NoFlight]
            /\ handled' = Append(handled, req.body)
            /\ asked' = [method |-> req.method, env |-> req.env, body |-> req.body,
                         failAt |-> req.failAt, status |-> r.status, calls |-> r.h.calls,
                         created |-> r.h.created, before |-> customers,
                         origin |-> req.origin, headers |-> frontCors(front, req)]
            /\ UNCHANGED customers
    /\ UNCHANGED <<rev, legacyApi, session, customer, invoices, emitted, snap, idem,
                   issued, last, uniqueTaxIds, front, emptyRefused, pollVars, relayVars>>

FrontAdvance(k) ==
    /\ flights[k].busy
    /\ \E req \in {flights[k].body} :
          FrontStep(k, req, frontHandler(front, req, FrontStepContext(req, flights[k].log)))

\* the checkout page, submitted twice or by two visitors with the same email
Rush ==
    {FrontRequest("POST", FrontEnvOk, Body(pl, "a@x.io", n, NULL, NULL), 0) :
       pl \in {"one_time", "aibe_split_3"}, n \in Names}

Init_rush == FrontInit({"cs1", "cs2"})

Next_rush ==
    \/ \E k \in Slots : \E req \in Rush : FrontArrive(k, req)
    \/ \E k \in Slots : FrontAdvance(k)

Spec_rush == Init_rush /\ [][Next_rush]_vars

(***************************************************************************)
(* The Confirmation Poller against the provider                            *)
(***************************************************************************)
Init_poll ==
    /\ HookIdle
    /\ FrontIdle
    /\ RelayIdle
    /\ \E m \in {"payment", "subscription"}, c \in {NULL, "cus_1"} :
          checkout = [OpenSession(m) EXCEPT !.customer = c]
    /\ outbox = <<>>
    /\ polled = NoPoll

PollRequests ==
    {PollRequest(m, env, PollBody(id, st, ps), k) :
       m \in {"POST", "GET", "OPTIONS"}, env \in PollEnvs,
       id \in {NULL, EMPTY, SessionId, "cs_404"},
       st \in {NULL, "complete"}, ps \in {NULL, "paid"}, k \in {0, 1}}

\* One request to the Confirmation Poller, handled from start to response.
PollFor(req) ==
    LET r == handler_p012(req, PollContext(req))
    IN /\ polled' = [method |-> req.method, env |-> req.env, body |-> req.body,
                     failAt |-> req.failAt, status |-> r.status, json |-> r.json,
                     calls |-> r.h.calls, sent |-> r.h.sent, before |-> checkout,
                     origin |-> req.origin, headers |-> cors_p012(req)]
       /\ outbox' = outbox \o r.h.sent
       /\ checkout' = r.h.session
       /\ UNCHANGED <<hookVars, frontVars, relayVars>>

Poll == \E req \in PollRequests : PollFor(req)

\* The buyer completes the checkout: paid at once, payment pending, or nothing due.
BuyerCompletes(ps) ==
    /\ checkout.status = "open"
    /\ checkout' = [checkout EXCEPT !.status = "complete", !.payment_status = ps,
                                    !.customer = "cus_1"]
    /\ polled' = NoPoll
    /\ UNCHANGED <<outbox, hookVars, frontVars, relayVars>>

\* A pending payment arrives.
PaymentSettles ==
    /\ checkout.status = "complete"
    /\ checkout.payment_status = "unpaid"
    /\ checkout' = [checkout EXCEPT !.payment_status = "paid"]
    /\ polled' = NoPoll
    /\ UNCHANGED <<outbox, hookVars, frontVars, relayVars>>

\* The session expires unused.
SessionExpires ==
    /\ checkout.status = "open"
    /\ checkout' = [checkout EXCEPT !.status = "expired"]
    /\ polled' = NoPoll
    /\ UNCHANGED <<outbox, hookVars, frontVars, relayVars>>

Next_poll ==
    \/ Poll
    \/ \E ps \in {"paid", "unpaid", "no_payment_required"} : BuyerCompletes(ps)
    \/ PaymentSettles
    \/ SessionExpires

Spec_poll == Init_poll /\ [][Next_poll]_vars

(***************************************************************************)
(* The browser-facing endpoints against requests from any origin           *)
(***************************************************************************)
\* the request as sent from another origin
From(req, origin) == [req EXCEPT !.origin = origin]

\* One request to the relay handler, handled from start to response.
Relay(req) ==
    /\ relay # "none"
    /\ LET r == relayHandler(req)
       IN relayed' = [method |-> req.method, origin |-> req.origin, env |-> req.env,
                      wellFormed |-> req.wellFormed, downstream |-> req.downstream,
                      status |-> r.status, sent |-> r.sent, forwarded |-> r.forwarded,
                      headers |-> relayCors(relay, req)]
    /\ UNCHANGED <<relay, hookVars, frontVars, pollVars>>

RelayRequests ==
    {RelayRequest(m, o, TRUE, TRUE, d) :
       m \in {"POST", "OPTIONS", "GET"}, o \in Origins,
       d \in {"accepted", "refused", "unreachable"}}
    \cup {RelayRequest("POST", o, url, wf, "accepted") :
            o \in {Storefront, NULL}, url \in BOOLEAN, wf \in BOOLEAN}

\* A page of any origin asks the Session Initiator for a session.
CrossOriginAsk ==
    \E o \in Origins, m \in {"POST", "OPTIONS", "GET"} :
       LET req == From(FrontRequest(m, FrontEnvOk,
                                    Body("one_time", "a@x.io", NULL, NULL, NULL), 0), o)
       IN Ask(req, frontHandler(front, req, FrontContext(req, frontAuth(front, req))))

\* A page of any origin asks the Confirmation Poller, the only endpoint deployed.
CrossOriginPoll ==
    /\ front = "none"
    /\ relay = "none"
    /\ \E o \in Origins, m \in {"POST", "OPTIONS", "GET"} :
          PollFor(From(PollRequest(m, [STRIPE_SECRET_KEY |-> TRUE],
                                   PollBody(SessionId, NULL, NULL), 0), o))

\* A page of any origin sends an event to the relay handler.
CrossOriginRelay == \E req \in RelayRequests : Relay(req)

Init_cors ==
    \/ /\ FrontInit(FrontRevisions)
       /\ customers = <<>>
       /\ ~emptyRefused
    \/ Init_poll
    \/ /\ HookIdle
       /\ FrontIdle
       /\ PollIdle
       /\ relay \in RelayRevisions
       /\ relayed = NoRelay

Next_cors == CrossOriginAsk \/ CrossOriginPoll \/ CrossOriginRelay

Spec_cors == Init_cors /\ [][Next_cors]_vars

(***************************************************************************)
(* Properties                                                              *)
(***************************************************************************)
LastType == IF last.body = NULL THEN NULL ELSE EventType(last.body)
LastCalls(op) == {i \in 1..Len(last.calls) : last.calls[i].op = op}

\* C1: in every revision of the Event Receiver, a request without a signature
\* that verifies is answered without a single provider call, and a POST whose
\* signature header is missing, signs another body or is made with another secret
\* than the endpoint's is answered 400.
C1_UnverifiedIsRejected ==
    /\ (last.body # NULL /\ ~last.verified) => last.calls = <<>>
    /\ (last.body # NULL /\ last.method = "POST" /\ last.env = EnvOk /\ last.kind # "valid")
       => (last.status = 400 /\ ~last.verified)

\* C1 witness: part_010 has answered 400 to a checkout.session.completed body
\* whose signature was made over another body.
C1_Witness ==
    /\ rev = "p010" /\ last.body = "evt_cs" /\ last.kind = "tampered"
    /\ last.status = 400 /\ last.calls = <<>>
    /\ customer.custom_fields = <<>>

\* C2: in the Event Receiver of src/api/stripe-webhook.js lines 1-216, a second
\* delivery of a checkout.session.completed event right after a delivery of the
\* same event that ran to its end leaves the customer as the first delivery left
\* it, and the customer's invoice_settings.custom_fields hold at most one entry
\* per field name.
C2_ReplayIsIdempotent ==
    (rev = "sw1" /\ last.repeat /\ LastType = "checkout.session.completed")
    => /\ customer = last.custBefore
       /\ NoDuplicateNames(customer.custom_fields)

\* C2 witness: the replay wrote the customer again (its customers.update was
\* executed) and the customer carries the company entry the first delivery wrote.
C2_Witness ==
    /\ rev = "sw1" /\ last.repeat /\ LastType = "checkout.session.completed"
    /\ \E i \in LastCalls("customers.update") : last.calls[i].outcome = "ok"
    /\ findName(customer.custom_fields, "Company") = "Acme GmbH"
    /\ Len(customer.custom_fields) > 1

\* C3: in the Event Receiver of src/api/stripe-webhook.js lines 1-216, handling a
\* checkout.session.completed event whose session carries company_name =
\* "Acme GmbH" and company_tax_number = "DE123456789", for a customer without
\* invoice defaults, leaves the customer with exactly two invoice-default custom
\* fields carrying those two values.
C3_ExactlyTheTwoEntries ==
    (/\ rev = "sw1" /\ last.clean /\ LastType = "checkout.session.completed"
     /\ session.custom_fields = TheSpecForm /\ session.customer # NULL
     /\ last.custBefore.custom_fields = <<>>)
    => /\ Len(customer.custom_fields) = 2
       /\ {customer.custom_fields[i].value : i \in 1..Len(customer.custom_fields)}
            = {"Acme GmbH", "DE123456789"}

\* C4: in src/api/stripe-webhook.js lines 1-216, no invoices.update is issued on
\* an invoice that is in another state than draft when the call is made.
C4_NoUpdatePastDraft ==
    rev = "sw1" => \A i \in LastCalls("invoices.update") : last.calls[i].on = "draft"

\* C8: in the Event Receiver of src/api/stripe-webhook.js lines 1-216, a verified
\* checkout.session.completed delivery during which a provider call failed in
\* transit is answered with a status that makes the provider deliver it again
\* (not a 2xx).
C8_FaultIsAnsweredRetryable ==
    (/\ rev = "sw1" /\ last.verified /\ LastType = "checkout.session.completed"
     /\ \E i \in 1..Len(last.calls) : last.calls[i].outcome = "fault")
    => last.status \notin 200..299

\* C9: in the Event Receiver of src/api/stripe-webhook.js lines 1-216, after an
\* invoice.created delivery that ran to its end, for an invoice that is a draft
\* and whose customer holds Company / VAT invoice defaults, the invoice's own
\* custom_fields carry those entries.
C9_DefaultsReachTheDraft ==
    (/\ rev = "sw1" /\ last.clean /\ LastType = "invoice.created"
     /\ invoices[EventInvoice(last.body)].status = "draft")
    => \A n \in {"Company", "VAT"} :
          findName(customer.custom_fields, n) # NULL
          => findName(invoices[EventInvoice(last.body)].custom_fields, n)
               = findName(customer.custom_fields, n)

\* C5: in the Event Receiver of src/unnamed/part_007 lines 286-469, every
\* invoices.update is issued on an invoice that is a draft when the call is made.
C5_UpdateOnlyOnDraft ==
    rev = "p007c" => \A i \in LastCalls("invoices.update") : last.calls[i].on = "draft"

\* C6: in the revisions of part_007 lines 286-469 and part_010, every mutating
\* call carries an idempotency key, two keyed calls carry the same key exactly
\* when they are the same operation on the same resource for the same event (so
\* a redelivery repeats the key, and no other call shares it).
C6_KeyPerOperationResourceEvent ==
    rev \in {"p007c", "p010"} =>
       /\ \A i \in 1..Len(last.calls) :
             last.calls[i].op \in MutatingOps => last.calls[i].key # NULL
       /\ \A a, b \in issued :
             (a.key = b.key) <=> (a.op = b.op /\ a.id = b.id /\ a.event = b.event)

\* C6 witness: the same invoice has been updated for two different events, under
\* two different keys, and the last delivery was a redelivery.
C6_Witness ==
    /\ rev = "p010" /\ last.repeat
    /\ \E a, b \in issued :
          /\ a.op = "invoices.update" /\ b.op = "invoices.update"
          /\ a.id = b.id /\ a.event # b.event /\ a.key # b.key

\* C7: in the revisions of stripe-webhook.js lines 1-216, part_007 lines 286-469
\* and part_010, every request whose signature verified is answered 200,
\* whatever the event and whichever provider call failed.
C7_VerifiedIsAnswered200 ==
    (rev \in {"sw1", "p007c", "p010"} /\ last.verified) => last.status = 200

\* C7 witness: stripe-webhook.js lines 1-216 answered 200 to a delivery during
\* which a provider call failed in transit.
C7_Witness ==
    /\ rev = "sw1" /\ last.verified /\ last.status = 200
    /\ \E i \in 1..Len(last.calls) : last.calls[i].outcome = "fault"

\* the field names a checkout.session.completed event writes: those of the
\* values the buyer filled in
EventWrites ==
    (IF Truthy(getTextField(SessionOfEvent, "company_name")) THEN {"Company"} ELSE {})
    \cup (IF Truthy(getTextField(SessionOfEvent, "company_tax_number")) THEN {"Tax ID"}
          ELSE {})

\* C10: in the revisions of part_011, part_009 and track.js lines 31-132, after a
\* checkout.session.completed delivery that ran to its end, every invoice-default
\* custom field the customer had under a name the event does not write is still
\* there with its value.
C10_OtherNamesSurvive ==
    (rev \in {"p011", "p009", "track"} /\ last.clean
     /\ LastType = "checkout.session.completed")
    => \A i \in 1..Len(last.custBefore.custom_fields) :
          LET f == last.custBefore.custom_fields[i]
          IN f.name \notin EventWrites
             => findName(customer.custom_fields, f.name) = f.value

Asked == asked.status # 0 /\ asked.method = "POST" /\ asked.env.STRIPE_SECRET_KEY

\* the calls of the last request to the operation op
AskedCalls(op) == {i \in 1..Len(asked.calls) : asked.calls[i].op = op}

\* C12: in every Session Initiator revision a request whose plan is a string other
\* than the six configured identifiers is answered 400 and makes no provider call.
C12_UnknownPlanIsRejected ==
    (Asked /\ asked.body.plan # NULL /\ asked.body.plan \notin SupportedPlans)
    => (asked.status = 400 /\ asked.calls = <<>>)

\* the price id the environment holds for a supported plan
ConfiguredPrice(env, plan) ==
    IF plan \in {"one_time", "aibe_pif"} THEN env.PRICE_ONE_TIME
    ELSE IF plan \in {"split_2", "aibe_split_2"} THEN env.PRICE_SPLIT_2
    ELSE env.PRICE_SPLIT_3

\* C13: in src/api/checkout-session.js, for each of the six supported plans whose
\* price is configured, checkout.sessions.create is called with exactly one line
\* item, carrying the configured price of the plan, and with mode subscription for
\* split_2 / aibe_split_2 / split_3 / aibe_split_3 and payment for one_time /
\* aibe_pif; a request that is answered 200 has made that call exactly once.
C13_PriceAndModeOfPlan ==
    (/\ Asked
     /\ front \in {"cs1", "cs2"}
     /\ asked.body.plan \in SupportedPlans
     /\ Truthy(ConfiguredPrice(asked.env, asked.body.plan)))
    => /\ \A i \in AskedCalls("checkout.sessions.create") :
             /\ Len(asked.calls[i].params.line_items) = 1
             /\ asked.calls[i].params.line_items[1].price
                  = ConfiguredPrice(asked.env, asked.body.plan)
             /\ asked.calls[i].params.mode
                  = IF asked.body.plan \in {"split_2", "aibe_split_2", "split_3", "aibe_split_3"}
                    THEN "subscription" ELSE "payment"
       /\ asked.status = 200 => Cardinality(AskedCalls("checkout.sessions.create")) = 1
       /\ asked.status \in {200, 500}

C13_Witness ==
    /\ front = "cs1"
    /\ asked.body.plan = "aibe_split_3"
    /\ asked.status = 200
    /\ \E i \in AskedCalls("checkout.sessions.create") :
          /\ asked.calls[i].outcome = "ok"
          /\ asked.calls[i].params.mode = "subscription"
          /\ asked.calls[i].params.line_items = <<LineItem("price_split3")>>

\* C14: in the Session Initiator of src/unnamed/part_003 lines 92-238 a request for
\* an installment plan (split_3 and the like) makes the handler ask the provider for
\* a checkout session in subscription mode.
C14_InstallmentAsksSubscription ==
    (/\ Asked
     /\ front = "p003b"
     /\ asked.body.plan \in {"split_2", "aibe_split_2", "split_3", "aibe_split_3"})
    => /\ \A i \in AskedCalls("checkout.sessions.create") :
             asked.calls[i].params.mode = "subscription"
       /\ asked.status = 200 => AskedCalls("checkout.sessions.create") # {}

\* C15: in src/api/checkout-session.js, when the secret key is configured but the
\* price id of the requested supported plan is missing from the environment, the
\* handler answers with a server error (5xx) and creates no session and no customer.
C15_MissingPriceFailsClosed ==
    (/\ Asked
     /\ front \in {"cs1", "cs2"}
     /\ asked.body.plan \in SupportedPlans
     /\ ~Truthy(ConfiguredPrice(asked.env, asked.body.plan)))
    => /\ asked.status >= 500
       /\ asked.created = {}
       /\ customers = asked.before

\* C16: in every revision of the Session Initiator and of the Event Receiver, a POST
\* that finds a required secret missing from the environment (STRIPE_SECRET_KEY, for
\* the receiver also STRIPE_WEBHOOK_SECRET) is answered 5xx and attempts no external
\* call: no provider request, and no signature accepted against another secret.
C16_MissingSecretFailsFast ==
    /\ (/\ last.body # NULL
        /\ last.method = "POST"
        /\ ~(last.env.STRIPE_SECRET_KEY /\ last.env.STRIPE_WEBHOOK_SECRET))
       => (last.status >= 500 /\ last.calls = <<>> /\ ~last.verified)
    /\ (/\ asked.status # 0
        /\ asked.method = "POST"
        /\ ~asked.env.STRIPE_SECRET_KEY)
       => (asked.status >= 500 /\ asked.calls = <<>>)

\* the customers.create calls of the last request that the provider executed
AskedCreates ==
    {i \in AskedCalls("customers.create") : asked.calls[i].outcome = "ok"}

\* the positions of the customers in cs that carry the email e
WithEmail(cs, e) == {j \in 1..Len(cs) : cs[j].email = e}

\* C17: in src/api/checkout-session.js, over any sequence of requests handled one
\* after the other with the same non-empty email and a supported plan, customers.create
\* is executed at most once and only when no customer with that email existed, every
\* session is created bound to the id of that one customer, and afterwards exactly
\* one customer with that email exists.
C17_OneCustomerPerEmail ==
    (/\ Asked
     /\ front \in {"cs1", "cs2"}
     /\ asked.body.plan \in SupportedPlans
     /\ Truthy(asked.body.email))
    => /\ Cardinality(AskedCreates) <= 1
       /\ AskedCreates # {} => WithEmail(asked.before, asked.body.email) = {}
       /\ AskedCreates = {} => customers \in {asked.before} \cup
             {[asked.before EXCEPT ![j].name = asked.body.name] :
                j \in WithEmail(asked.before, asked.body.email)}
       /\ \A p \in asked.created :
             /\ p.customer_email = NULL
             /\ \E j \in WithEmail(customers, asked.body.email) : p.customer = BuyerIds[j]
       /\ Cardinality(WithEmail(customers, asked.body.email)) <= 1
       /\ asked.status = 200 =>
             /\ Cardinality(WithEmail(customers, asked.body.email)) = 1
             /\ asked.created # {}

C17_Witness ==
    /\ front = "cs2"
    /\ asked.before = <<[email |-> "a@x.io", name |-> EMPTY]>>
    /\ asked.body.email = "a@x.io"
    /\ asked.status = 200
    /\ AskedCreates = {}
    /\ Len(customers) = 1
    /\ \E p \in asked.created : p.customer = "cus_1"

(***************************************************************************)
(* Confirmation Poller                                                     *)
(***************************************************************************)
\* the last poll re-fetched the session and answered with its fields
Confirmed == polled.status = 200 /\ polled.json.id # NULL

\* what the answer says about the session: successful iff complete and paid
SaysSuccessful(json) == json.status = "complete" /\ json.payment_status = "paid"

\* C18: the Confirmation Poller reports a session as successful (status complete,
\* payment_status paid) exactly when the session re-fetched from the provider is
\* complete and paid; for a session that is open it answers 200 with the raw status
\* fields, which say not yet successful.
C18_SuccessfulIffCompleteAndPaid ==
    /\ Confirmed =>
          /\ SaysSuccessful(polled.json)
               <=> (polled.before.status = "complete" /\ polled.before.payment_status = "paid")
          /\ polled.json.status = polled.before.status
          /\ polled.json.payment_status = polled.before.payment_status
    /\ (/\ polled.status # 0
        /\ polled.method = "POST"
        /\ polled.env.STRIPE_SECRET_KEY
        /\ polled.body.session_id = SessionId
        /\ polled.failAt = 0
        /\ polled.before.status = "open")
       => (Confirmed /\ polled.json.status = "open" /\ ~SaysSuccessful(polled.json))

C18_Witness ==
    /\ Confirmed
    /\ polled.before.status = "complete"
    /\ polled.before.payment_status = "paid"
    /\ SaysSuccessful(polled.json)

\* C19: whenever the Confirmation Poller confirms a session as complete and paid, it
\* has sent a normalized event (session id, amount, currency, billing mode, contact
\* email, customer id) to the downstream automation endpoint by the time it answers.
C19_ConfirmedIsRelayed ==
    (Confirmed /\ SaysSuccessful(polled.json))
    => \E i \in 1..Len(polled.sent) : polled.sent[i].session_id = polled.json.id

\* C20: a request to the Confirmation Poller that carries a session id makes exactly
\* one provider call, checkout.sessions.retrieve, and changes no provider resource;
\* the status and payment_status it returns are those of the provider's session
\* whatever else the body holds; a request without session_id is answered 400 and
\* makes no provider call.
C20_OneReadOnlyCall ==
    (polled.status # 0 /\ polled.method = "POST" /\ polled.env.STRIPE_SECRET_KEY)
    => /\ checkout = polled.before
       /\ \A i \in 1..Len(polled.calls) : polled.calls[i].op = "checkout.sessions.retrieve"
       /\ IF Truthy(polled.body.session_id)
          THEN /\ Len(polled.calls) = 1
               /\ polled.calls[1].id = polled.body.session_id
               /\ polled.status = 200 =>
                     /\ polled.json.status = polled.before.status
                     /\ polled.json.payment_status = polled.before.payment_status
          ELSE polled.status = 400 /\ polled.calls = <<>>

C20_Witness ==
    /\ polled.status = 200
    /\ polled.body.status = "complete"
    /\ polled.body.payment_status = "paid"
    /\ polled.json.status = "open"
    /\ polled.json.payment_status = "unpaid"
    /\ Len(polled.calls) = 1

(***************************************************************************)
(* Properties of the Event Receiver of src/unnamed/part_010                *)
(***************************************************************************)
\* C26: in the Event Receiver of src/unnamed/part_010, every
\* invoices.finalizeInvoice call of a checkout.session.completed delivery is made
\* on an invoice that is a draft when the call is made: the event delivered again
\* after the invoice was finalized (status open) makes no finalize call.
C26_FinalizeOnlyOnDraft ==
    (rev = "p010" /\ LastType = "checkout.session.completed")
    => \A i \in LastCalls("invoices.finalizeInvoice") : last.calls[i].on = "draft"

\* C27: in the Event Receiver of src/unnamed/part_010, a
\* checkout.session.completed delivery issues no invoices.update on an invoice
\* that is not a draft when the call is made.
C27_NoUpdateUnlessDraft ==
    (rev = "p010" /\ LastType = "checkout.session.completed")
    => \A i \in LastCalls("invoices.update") : last.calls[i].on = "draft"

\* C28: in the Event Receiver of src/unnamed/part_010, a verified
\* checkout.session.completed delivery, none of whose calls failed, for a session
\* whose invoice is a draft leaves that invoice finalized, with or without a
\* company name or tax number in the session.
C28_LocatedDraftIsFinalized ==
    [][(/\ rev = "p010"
        /\ last' # last
        /\ last'.clean
        /\ EventType(last'.body) = "checkout.session.completed"
        /\ session.invoice # NULL
        /\ invoices[session.invoice].status = "draft")
       => invoices'[session.invoice].status # "draft"]_vars

(***************************************************************************)
(* Order of the calls of src/unnamed/part_007 lines 286-469                *)
(***************************************************************************)
\* the step of the checkout.session.completed handling a call belongs to
StageOf(call) ==
    CASE call.op = "checkout.sessions.retrieve" -> 0
      [] call.op = "customers.update" -> 1
      [] call.op \in {"invoices.retrieve", "invoices.list"} -> 2
      [] call.op = "invoices.update" -> 3
      [] call.op = "invoices.finalizeInvoice" -> 4
      [] call.op = "invoices.pay" -> 5
      [] OTHER -> 6

Returned(call) == call.outcome \in {"ok", "replayed"}

C29_NoLayoutWritePastDraft ==
    rev \in {"p009", "p011"} =>
       /\ \A i \in LastCalls("invoices.update") : last.calls[i].on = "draft"
       /\ LastType = "invoice.finalized"
          => \A i \in LastCalls("invoices.update") :
                last.calls[i].has \cap {"custom_fields", "customer_name"} = {}

(***************************************************************************)
(* Properties of the cross-origin headers                                  *)
(***************************************************************************)
\* the Access-Control-* headers of a response
AccessControl(hd) == {hd.allowOrigin, hd.allowMethods, hd.allowHeaders} \ {NULL}

\* Access-Control-Allow-Origin only for an allow-listed origin, and then that
\* origin; no Access-Control-* header for any other request
OnlyForAllowListed(hd, origin, allowed) ==
    /\ hd.allowOrigin # NULL => (origin \in allowed /\ hd.allowOrigin = origin)
    /\ origin \notin allowed => AccessControl(hd) = {}

\* C21: for every request to the Session Initiator, the Confirmation Poller and
\* the relay handlers, Access-Control-Allow-Origin is set only when the request's
\* Origin is on the handler's allow-list, and then equals it; a request from any
\* other origin receives no CORS header at all.
C21_CorsOnlyForAllowListed ==
    /\ asked.status # 0 => OnlyForAllowListed(asked.headers, asked.origin, ALLOWED)
    /\ polled.status # 0 => OnlyForAllowListed(polled.headers, polled.origin, ALLOWED)
    /\ relayed.status # 0 =>
          OnlyForAllowListed(relayed.headers, relayed.origin,
                             IF relay = "track" THEN ALLOWED_track ELSE ALLOWED_p005c)

\* the invoice.created handling has switched off auto_advance of draft invoice i
Paused(i) ==
    /\ rev = "p007c"
    /\ idempotencyKey("inv-pause", Ref(i), CreatedEvent(i)) \in idem
    /\ invoices[i].status = "draft"
    /\ ~invoices[i].auto_advance

\* C24: in the Event Receiver of src/unnamed/part_007 lines 286-469, every invoice
\* whose auto_advance the invoice.created handling has switched off is
\* eventually finalized (it does not stay a draft forever), whatever the order
\* of the deliveries, for every invoice of the customer, later billing cycles
\* included.
C24_PausedIsEventuallyFinalized ==
    \A i \in InvoiceIds : Paused(i) ~> (invoices[i].status # "draft")

(***************************************************************************)
(* Properties of deliveries handled concurrently                           *)
(***************************************************************************)
\* C22: in the Event Receiver of src/unnamed/part_007 lines 286-469, however two
\* concurrent deliveries of the same checkout.session.completed event interleave,
\* invoices.finalizeInvoice is invoked only on an invoice that is a draft when
\* the call is made, never on one the other delivery has finalized.
C22_FinalizeOnlyWhileDraft ==
    rev = "p007c" =>
       \A k \in Slots : \A i \in 1..Len(flights[k].log) :
          flights[k].log[i].call.op = "invoices.finalizeInvoice"
          => flights[k].log[i].call.on = "draft"

\* the invoice carries the Billing Supplement of the checkout as custom fields
CarriesSupplement(v) ==
    /\ findName(v.custom_fields, "Company") =
          getCompanyFieldsFromSession_p010(SessionOfEvent).companyName
    /\ findName(v.custom_fields, "Tax ID") =
          getCompanyFieldsFromSession_p010(SessionOfEvent).taxNumber

\* the concurrent handlings of these events have all ended
Handled(events) == \A e \in events : \E i \in 1..Len(handled) : handled[i] = e

\* C23: in the Event Receiver of src/unnamed/part_010, however the handlings of
\* checkout.session.completed and invoice.created interleave, when the session
\* carries the Billing Supplement and the invoice is a draft with auto_advance
\* off, the invoice carries the Billing Supplement's custom fields once both
\* handlings have ended.
C23_SupplementReachesInvoice ==
    (/\ rev = "p010"
     /\ session.custom_fields = TheSpecForm
     /\ Handled({"evt_cs", "evt_ic1"}))
    => CarriesSupplement(invoices["in_1"])

\* C30: in the Event Receiver of src/unnamed/part_006 lines 179-366, after any
\* sequence or interleaving of checkout.session.completed, invoice.created and
\* invoice.finalized handlings for one customer, the customer holds at most one
\* eu_vat tax id per normalized value.
C30_OneTaxIdPerValue ==
    rev = "p006b" =>
       \A i, j \in 1..Len(customer.tax_ids) :
          customer.tax_ids[i] = customer.tax_ids[j] => i = j

\* the calls of the last handling that tried one of the operations and failed
FailedCalls(ops) ==
    {i \in 1..Len(last.calls) : last.calls[i].op \in ops /\ Threw(last.calls[i].outcome)}

\* C31: in the revision of stripe-webhook.js lines 218-382, a verified event in
\* whose handling a customers.update or invoices.update failed is answered with
\* a status outside 200..299.
C31_FailedMutationIsNot2xx ==
    (rev = "sw2" /\ last.verified
       /\ FailedCalls({"customers.update", "invoices.update"}) # {})
    => last.status \notin 200..299

\* the customer after one delivery of checkout.session.completed, handled from
\* start to end, to a receiver that finds the customer as c
OneDelivery(c) ==
    sessionCompleted_sw1(
        [Context(Request("evt_cs", "valid", "POST", EnvOk, 0)) EXCEPT !.cust = c]).cust

\* two deliveries of checkout.session.completed have been handled, and no other
TwiceHandled ==
    /\ handled = <<"evt_cs", "evt_cs">>
    /\ \A k \in Slots : ~flights[k].busy

\* C32: in the revision of stripe-webhook.js lines 1-216, however the calls of
\* two deliveries of the same checkout.session.completed event interleave, the
\* customer's metadata and invoice_settings.custom_fields end as one delivery
\* alone leaves them.
C32_TwoDeliveriesAsOne ==
    \A cf \in InitialCustomFields :
       (customer = InitialCustomer(cf))
       => [](TwiceHandled
             => /\ customer.metadata = OneDelivery(InitialCustomer(cf)).metadata
                /\ customer.custom_fields = OneDelivery(InitialCustomer(cf)).custom_fields)

C32_Witness ==
    /\ rev = "sw1"
    /\ TwiceHandled
    /\ customer.metadata["company_name"] = "Acme GmbH"
    /\ findIndex(customer.custom_fields, "PO") > 0

\* the entries of `after' under another name than those in `names' are the
\* entries of `before' under another name, each at its place
OthersKeepPlace(before, after, names) ==
    /\ \A i \in 1..Len(before) :
          before[i].name \notin names => (i <= Len(after) /\ after[i] = before[i])
    /\ \A i \in 1..Len(after) :
          after[i].name \notin names => (i <= Len(before) /\ before[i] = after[i])

\* C33: in the revision of stripe-webhook.js lines 1-216, handling
\* checkout.session.completed changes of the customer only the metadata keys
\* company_name and tax_number and the custom fields named Company and VAT:
\* every other key keeps its value, every other custom field its value and its
\* position, the name stays, and a session with neither value leaves metadata
\* and custom fields as they were.
C33_OnlyCompanyAndVatChange ==
    (rev = "sw1" /\ last.verified /\ LastType = "checkout.session.completed")
    => LET f == readCompanyAndVatFromSession(
                   SessionView({"customer", "invoice", "subscription.latest_invoice"}))
       IN /\ \A k \in MetaKeys \ {"company_name", "tax_number"} :
                customer.metadata[k] = last.custBefore.metadata[k]
          /\ OthersKeepPlace(last.custBefore.custom_fields, customer.custom_fields,
                             {"Company", "VAT"})
          /\ customer.name = last.custBefore.name
          /\ (~Truthy(f.companyName) /\ ~Truthy(f.taxNumber))
             => /\ customer.metadata = last.custBefore.metadata
                /\ customer.custom_fields = last.custBefore.custom_fields

C33_Witness ==
    /\ rev = "sw1" /\ last.verified /\ LastType = "checkout.session.completed"
    /\ LastCalls("customers.update") # {}
    /\ last.clean
    /\ findName(last.custBefore.custom_fields, "Company") = "Old Co"
    /\ findName(customer.custom_fields, "Company") = "Acme GmbH"
    /\ findIndex(customer.custom_fields, "PO") = 1
    /\ customer.metadata["crm_id"] = "crm-7"

\* the customers the provider holds under the email
WithEmailNow(email) == {i \in 1..Len(customers) : customers[i].email = email}

\* C34: in the Session Initiator of checkout-session.js, however the calls of
\* concurrent requests with the same email interleave, the provider holds at
\* most one customer with that email.
C34_OneCustomerPerEmail ==
    front \in {"cs1", "cs2"} => Cardinality(WithEmailNow("a@x.io")) <= 1

\* C35: in the Session Initiator revisions that create or update a customer
\* before creating the session (checkout-session.js, part_005 lines 1-122), a
\* request answered 4xx or 5xx leaves the provider's customers as they were.
C35_ErrorLeavesCustomersAlone ==
    (front \in {"cs1", "cs2", "p005a"} /\ asked.status >= 400)
    => customers = asked.before

\* the request last asked, with another email and name in its body
WithContact(e, n) ==
    FrontRequest(asked.method, asked.env, [asked.body EXCEPT !.email = e, !.name = n],
                 asked.failAt)

\* the provider as the request last asked found it
ContextBefore(req) ==
    [FrontContext(req, frontAuth(front, req)) EXCEPT !.customers = asked.before,
                                                     !.now = asked.before]

\* r makes the calls and gives the answer of the request last asked
SameAsAsked(r) ==
    /\ r.status = asked.status
    /\ r.h.calls = asked.calls
    /\ r.h.created = asked.created
    /\ r.h.customers = customers

\* C36: in the revisions of part_001 lines 140-256 and part_003 lines 1-90, no
\* checkout.sessions.create call carries customer or customer_email, and the
\* request with any other email and name in its body makes the same provider
\* calls and gets the same answer.
C36_ContactNeverReachesProvider ==
    (front \in {"p001b", "p003a"} /\ asked.status # 0)
    => /\ \A i \in 1..Len(asked.calls) :
             asked.calls[i].op = "checkout.sessions.create"
             => /\ asked.calls[i].params.customer = NULL
                /\ asked.calls[i].params.customer_email = NULL
       /\ \A e \in {NULL, EMPTY, "a@x.io", "b@x.io"}, n \in {NULL, EMPTY, "Ann"} :
             \A req \in {WithContact(e, n)} :
                SameAsAsked(frontHandler(front, req, ContextBefore(req)))

C36_Witness ==
    /\ front \in {"p001b", "p003a"}
    /\ asked.status = 200
    /\ asked.body.email = "a@x.io"
    /\ asked.body.name = "Ann"
    /\ \E i \in 1..Len(asked.calls) : asked.calls[i].op = "checkout.sessions.create"

\* C37: in the Session Initiator of src/api/checkout-session.js, for every
\* supported plan the return_url handed to the provider carries the plan and
\* that plan's total, one of 499, 515 and 525.
C37_ReturnUrlCarriesPlanAndTotal ==
    front \in {"cs1", "cs2"}
    => \A i \in 1..Len(asked.calls) :
          (/\ asked.calls[i].op = "checkout.sessions.create"
           /\ orDefault(asked.body.plan, "one_time") \in SupportedPlans)
          => /\ asked.calls[i].params.return_plan = orDefault(asked.body.plan, "one_time")
             /\ asked.calls[i].params.return_total \in {"499", "515", "525"}

\* C38: the relay handler answers a POST with a server error whenever the relay
\* fails, both when the request cannot be sent and when the downstream endpoint
\* answers with a non-2xx status, and answers it 200 only when the downstream
\* endpoint accepted the event; without WEBHOOK_URL it answers 500 and makes no
\* outbound request.
C38_RelayFailureIsServerError ==
    (relay # "none" /\ relayed.status # 0 /\ relayed.method = "POST")
    => /\ (relayed.env.WEBHOOK_URL /\ relayed.wellFormed /\ relayed.downstream # "accepted")
          => relayed.status >= 500
       /\ relayed.status = 200 => relayed.downstream = "accepted"
       /\ ~relayed.env.WEBHOOK_URL => (relayed.status = 500 /\ relayed.sent = 0)
=============================================================================
